---- MODULE Spec2Model ----
(***************************************************************************)
(* hypernote-mdx: tokenizer (src/src/tokenizer.rs), parser                 *)
(* (src/src/parser.rs), AST accessors (src/src/ast.rs) and renderer        *)
(* (src/src/render.rs) as a state machine.                                 *)
(*                                                                         *)
(* A source is a sequence of bytes (0..255).  Vec indices, token indices,  *)
(* node indices and byte offsets keep the 0-based values of the Rust code; *)
(* At(s, i) reads element i of a Vec.                                      *)
(***************************************************************************)
EXTENDS Integers, Sequences, FiniteSets, TLC

VARIABLES source, tz, tokens, p, pc, calls, output

vars == <<source, tz, tokens, p, pc, calls, output>>

(***************************************************************************)
(* Bytes that the code names as literals.                                  *)
(***************************************************************************)
NUL == 0
TAB == 9
LF == 10
SPACE == 32
BANG == 33
DQUOTE == 34
HASH == 35
AMP == 38
SQUOTE == 39
LPAREN == 40
RPAREN == 41
STAR == 42
MINUS == 45
DOT == 46
SLASH == 47
COLON == 58
PIPE == 124
LT == 60
EQUALS == 61
GT == 62
LBRACKET == 91
BACKSLASH == 92
RBRACKET == 93
UNDERSCORE == 95
BACKTICK == 96
LBRACE == 123
RBRACE == 125

Digits == 48..57
Upper == 65..90
Lower == 97..122
Alpha == Upper \cup Lower
AlphaNumeric == Alpha \cup Digits

\* U+FE0F (variation selector 16) and U+20E3 (combining enclosing keycap) in UTF-8
VS16 == <<239, 184, 143>>
KEYCAP == <<226, 131, 163>>

At(s, i) == s[i + 1]

Last(s) == s[Len(s)]

Min(a, b) == IF a < b THEN a ELSE b

Max(a, b) == IF a < b THEN b ELSE a

RECURSIVE Call(_, _)

(***************************************************************************)
(* Tokenizer                                                               *)
(***************************************************************************)
Tokenizer_new == [index |-> 0, line_start |-> 0, mode |-> "Markdown", mode_stack |-> <<>>,
                  strong_depth |-> 0, emphasis_depth |-> 0, after_link_text |-> FALSE,
                  in_link_url |-> FALSE, pending_token |-> <<>>]

buf(b, idx) == IF idx >= 0 /\ idx < Len(b) THEN b[idx + 1] ELSE NUL

make_token(t, tag, start) == [t |-> t, tok |-> [tag |-> tag, start |-> start, end |-> t.index]]

\* push_mode that does not save the mode it leaves
push_mode_unsaved(t, m) == [t EXCEPT !.mode = m]

push_mode(t, m) == [t EXCEPT !.mode_stack = Append(@, t.mode), !.mode = m]

pop_mode(t) ==
  IF t.mode_stack = <<>> THEN [t EXCEPT !.mode = "Markdown"]
  ELSE [t EXCEPT !.mode = Last(t.mode_stack),
                 !.mode_stack = SubSeq(t.mode_stack, 1, Len(t.mode_stack) - 1)]

peek_ahead(b, t, needle) ==
  /\ t.index + Len(needle) <= Len(b)
  /\ \A k \in 1..Len(needle) : b[t.index + k] = needle[k]

is_keycap_emoji_start(b, idx) ==
  /\ buf(b, idx) \in Digits \cup {HASH, STAR}
  /\ IF buf(b, idx + 1) = VS16[1] /\ buf(b, idx + 2) = VS16[2] /\ buf(b, idx + 3) = VS16[3]
     THEN buf(b, idx + 4) = KEYCAP[1] /\ buf(b, idx + 5) = KEYCAP[2] /\ buf(b, idx + 6) = KEYCAP[3]
     ELSE buf(b, idx + 1) = KEYCAP[1] /\ buf(b, idx + 2) = KEYCAP[2] /\ buf(b, idx + 3) = KEYCAP[3]

advance_keycap_emoji(b, t) ==
  IF buf(b, t.index + 1) = VS16[1] /\ buf(b, t.index + 2) = VS16[2] /\ buf(b, t.index + 3) = VS16[3]
  THEN [t EXCEPT !.index = @ + 7]
  ELSE [t EXCEPT !.index = @ + 4]

is_jsx_start(b, t) ==
  /\ t.index + 1 < Len(b)
  /\ buf(b, t.index + 1) \in {SLASH, GT, UNDERSCORE} \cup Alpha

\* `while self.buf(i) == c { i += 1 }` and `while i < len && buf(i) in S { i += 1 }`
\* the first offset from i on that is past the end or holds a byte outside S
ScanIn(b, i, S) ==
  IF i >= Len(b) THEN i
  ELSE LET stops == {j \in i..Len(b) : j = Len(b) \/ b[j + 1] \notin S}
       IN CHOOSE j \in stops : \A k \in stops : j <= k

\* `while i < len { if buf(i) in Stop { break } i += 1 }`
RECURSIVE ScanUntil(_, _, _)
ScanUntil(b, i, Stop) == IF i < Len(b) /\ b[i + 1] \notin Stop THEN ScanUntil(b, i + 1, Stop) ELSE i

\* try_checkbox without the test of the byte after the closing bracket
try_checkbox_any_follower(b, t) ==
  IF /\ buf(b, t.index) = LBRACKET
     /\ buf(b, t.index + 1) \in {SPACE, 120, 88}
     /\ buf(b, t.index + 2) = RBRACKET
  THEN LET after_bracket == t.index + 3
           checked == buf(b, t.index + 1) # SPACE
           cb_end == IF buf(b, after_bracket) = SPACE THEN after_bracket + 1 ELSE after_bracket
       IN [t EXCEPT !.pending_token =
                      <<[tag |-> IF checked THEN "CheckboxChecked" ELSE "CheckboxUnchecked",
                         start |-> t.index, end |-> cb_end]>>,
                    !.index = cb_end]
  ELSE t

try_checkbox(b, t) ==
  IF /\ buf(b, t.index) = LBRACKET
     /\ buf(b, t.index + 1) \in {SPACE, 120, 88}
     /\ buf(b, t.index + 2) = RBRACKET
     /\ buf(b, t.index + 3) \in {SPACE, LF, NUL}
  THEN LET after_bracket == t.index + 3
           checked == buf(b, t.index + 1) # SPACE
           cb_end == IF buf(b, after_bracket) = SPACE THEN after_bracket + 1 ELSE after_bracket
       IN [t EXCEPT !.pending_token =
                      <<[tag |-> IF checked THEN "CheckboxChecked" ELSE "CheckboxUnchecked",
                         start |-> t.index, end |-> cb_end]>>,
                    !.index = cb_end]
  ELSE t

\* maybe_strong_or_emphasis that always opens a strong span at `**`
maybe_strong_or_emphasis_opens(b, t, start) ==
  IF buf(b, t.index) = STAR
  THEN make_token([t EXCEPT !.index = @ + 1, !.strong_depth = @ + 1], "StrongStart", start)
  ELSE IF t.emphasis_depth > 0
       THEN make_token([t EXCEPT !.emphasis_depth = @ - 1], "EmphasisEnd", start)
       ELSE make_token([t EXCEPT !.emphasis_depth = @ + 1], "EmphasisStart", start)

maybe_strong_or_emphasis(b, t, start) ==
  IF buf(b, t.index) = STAR
  THEN IF t.strong_depth > 0
       THEN make_token([t EXCEPT !.index = @ + 1, !.strong_depth = @ - 1], "StrongEnd", start)
       ELSE make_token([t EXCEPT !.index = @ + 1, !.strong_depth = @ + 1], "StrongStart", start)
  ELSE IF t.emphasis_depth > 0
       THEN make_token([t EXCEPT !.emphasis_depth = @ - 1], "EmphasisEnd", start)
       ELSE make_token([t EXCEPT !.emphasis_depth = @ + 1], "EmphasisStart", start)

\* the scanning loop of text(): the index where it stops
text_scan(b, t, i) ==
  IF i >= Len(b) THEN i
  ELSE LET ch == buf(b, i) IN
    CASE ch \in {NUL, LF, LBRACE, LT, BACKTICK, LBRACKET} -> i
      [] ch = STAR ->
           IF is_keycap_emoji_start(b, i)
           THEN Call("text_scan", <<b, t, advance_keycap_emoji(b, [t EXCEPT !.index = i]).index>>)
           ELSE i
      [] ch = RBRACKET ->
           IF i + 1 < Len(b) /\ buf(b, i + 1) = LPAREN THEN i ELSE Call("text_scan", <<b, t, i + 1>>)
      [] ch = LPAREN -> IF t.after_link_text THEN i ELSE Call("text_scan", <<b, t, i + 1>>)
      [] ch = RPAREN -> IF t.in_link_url THEN i ELSE Call("text_scan", <<b, t, i + 1>>)
      [] ch = BANG ->
           IF i + 1 < Len(b) /\ buf(b, i + 1) = LBRACKET THEN i ELSE Call("text_scan", <<b, t, i + 1>>)
      [] OTHER -> Call("text_scan", <<b, t, i + 1>>)

\* `while end_idx > start && buf(end_idx - 1) == b' ' { end_idx -= 1 }`
RECURSIVE trailing_spaces_start(_, _, _)
trailing_spaces_start(b, start, end_idx) ==
  IF end_idx > start /\ buf(b, end_idx - 1) = SPACE
  THEN trailing_spaces_start(b, start, end_idx - 1)
  ELSE end_idx

\* text that keeps trailing spaces and a trailing backslash in the Text token
text_keeps_trailing(b, t0, start) ==
  make_token([t0 EXCEPT !.index = Call("text_scan", <<b, t0, t0.index>>)], "Text", start)

text(b, t0, start) ==
  LET i == Call("text_scan", <<b, t0, t0.index>>)
      t == [t0 EXCEPT !.index = i]
  IN IF i < Len(b) /\ buf(b, i) = LF
     THEN IF i > start /\ buf(b, i - 1) = BACKSLASH
          THEN IF i - 1 = start
               THEN make_token([t EXCEPT !.index = i + 1, !.line_start = i + 1], "HardBreak", start)
               ELSE make_token([t EXCEPT !.index = i - 1], "Text", start)
          ELSE LET end_idx == trailing_spaces_start(b, start, i)
                   spaces == i - end_idx
               IN IF spaces >= 2
                  THEN IF end_idx = start
                       THEN make_token([t EXCEPT !.index = i + 1, !.line_start = i + 1],
                                       "HardBreak", start)
                       ELSE make_token([t EXCEPT !.index = end_idx], "Text", start)
                  ELSE make_token(t, "Text", start)
     ELSE make_token(t, "Text", start)

next_jsx_identifier(b, t) ==
  make_token([t EXCEPT !.index = ScanIn(b, t.index, AlphaNumeric \cup {UNDERSCORE, MINUS})],
             "JsxIdentifier", t.index)

next_jsx_bare_value(b, t) ==
  make_token([t EXCEPT !.index = ScanUntil(b, t.index, {SPACE, TAB, LF, SLASH, GT, EQUALS, NUL})],
             "Text", t.index)

\* the loop of next_jsx_string: <<index, closed>>; a backslash skips two bytes,
\* also when it is the last byte of the buffer
RECURSIVE jsx_string_scan(_, _, _)
jsx_string_scan(b, i, quote) ==
  IF i >= Len(b) THEN <<i, FALSE>>
  ELSE IF buf(b, i) = quote THEN <<i + 1, TRUE>>
  ELSE IF buf(b, i) = BACKSLASH THEN jsx_string_scan(b, i + 2, quote)
  ELSE jsx_string_scan(b, i + 1, quote)

next_jsx_string(b, t, quote) ==
  LET r == jsx_string_scan(b, t.index + 1, quote)
  IN make_token([t EXCEPT !.index = r[1]], IF r[2] THEN "JsxString" ELSE "Invalid", t.index)

\* next_jsx at a byte that is not whitespace
next_jsx_dispatch(b, t) ==
  LET start == t.index
      c == buf(b, t.index)
      adv(n) == [t EXCEPT !.index = @ + n]
  IN IF t.index >= Len(b) THEN make_token(t, "Eof", start)
     ELSE CASE c = NUL -> make_token(t, "Eof", start)
            [] c = LT ->
                 IF buf(b, t.index + 1) = SLASH THEN make_token(adv(2), "JsxCloseTag", start)
                 ELSE IF buf(b, t.index + 1) = GT THEN make_token(adv(2), "JsxFragmentStart", start)
                 ELSE make_token(adv(1), "JsxTagStart", start)
            [] c = GT -> make_token(pop_mode(adv(1)), "JsxTagEnd", start)
            [] c = SLASH ->
                 IF buf(b, t.index + 1) = GT THEN make_token(pop_mode(adv(2)), "JsxSelfClose", start)
                 ELSE make_token(adv(1), "Invalid", start)
            [] c = LBRACE -> make_token(push_mode(adv(1), "Expression"), "JsxAttrExprStart", start)
            [] c = EQUALS -> make_token(adv(1), "JsxEqual", start)
            [] c \in {DQUOTE, SQUOTE} -> next_jsx_string(b, t, c)
            [] c = DOT -> make_token(adv(1), "JsxDot", start)
            [] c = COLON -> make_token(adv(1), "JsxColon", start)
            [] c \in Digits \cup {MINUS} -> next_jsx_bare_value(b, t)
            [] c \in Alpha \cup {UNDERSCORE} -> next_jsx_identifier(b, t)
            [] OTHER -> make_token(adv(1), "Invalid", start)

\* whitespace is skipped and next() is called again: no token is pending and
\* the mode is still Jsx, so that call is next_jsx at the first other byte
next_jsx(b, t) ==
  IF t.index < Len(b) /\ buf(b, t.index) \in {SPACE, TAB, LF}
  THEN Call("next_jsx_dispatch", <<b, [t EXCEPT !.index = ScanIn(b, t.index, {SPACE, TAB, LF})]>>)
  ELSE Call("next_jsx_dispatch", <<b, t>>)

\* next_expression that does not count a nested `{`
next_expression_flat(b, t) ==
  LET start == t.index
      c == buf(b, t.index)
  IN IF t.index >= Len(b) \/ c = NUL THEN make_token(t, "Eof", start)
     ELSE IF c = RBRACE THEN make_token(pop_mode([t EXCEPT !.index = @ + 1]), "ExprEnd", start)
     ELSE IF c = LBRACE THEN make_token([t EXCEPT !.index = @ + 1], "ExprStart", start)
     ELSE make_token([t EXCEPT !.index = ScanUntil(b, t.index, {LBRACE, RBRACE, NUL})],
                     "Text", start)

next_expression(b, t) ==
  LET start == t.index
      c == buf(b, t.index)
  IN IF t.index >= Len(b) \/ c = NUL THEN make_token(t, "Eof", start)
     ELSE IF c = RBRACE THEN make_token(pop_mode([t EXCEPT !.index = @ + 1]), "ExprEnd", start)
     ELSE IF c = LBRACE
       THEN make_token(push_mode([t EXCEPT !.index = @ + 1], "Expression"), "ExprStart", start)
     ELSE make_token([t EXCEPT !.index = ScanUntil(b, t.index, {LBRACE, RBRACE, NUL})],
                     "Text", start)

next_inline_code(b, t) ==
  LET start == t.index
      c == buf(b, t.index)
  IN IF t.index >= Len(b) \/ c = NUL THEN make_token(t, "Eof", start)
     ELSE IF c = BACKTICK
       THEN make_token(pop_mode([t EXCEPT !.index = @ + 1]), "CodeInlineEnd", start)
     ELSE make_token([t EXCEPT !.index = ScanUntil(b, t.index, {BACKTICK, NUL})], "Text", start)

FENCE == <<BACKTICK, BACKTICK, BACKTICK>>

RECURSIVE code_block_scan(_, _, _)
code_block_scan(b, t, i) ==
  IF i >= Len(b) THEN i
  ELSE IF buf(b, i) \in {LF, NUL} THEN i
  ELSE IF i = t.line_start /\ buf(b, i) = BACKTICK /\ peek_ahead(b, [t EXCEPT !.index = i], FENCE)
    THEN i
  ELSE code_block_scan(b, t, i + 1)

next_code_block(b, t) ==
  LET start == t.index
      c == buf(b, t.index)
  IN IF t.index >= Len(b) THEN make_token(t, "Eof", start)
     ELSE IF t.index = t.line_start /\ c = BACKTICK /\ peek_ahead(b, t, FENCE)
       THEN make_token(pop_mode([t EXCEPT !.index = @ + 3]), "CodeFenceEnd", start)
     ELSE IF c = NUL THEN make_token(t, "Eof", start)
     ELSE IF c = LF
       THEN make_token([t EXCEPT !.index = @ + 1, !.line_start = t.index + 1], "Newline", start)
     ELSE make_token([t EXCEPT !.index = code_block_scan(b, t, t.index)], "Text", start)

next_markdown_inline(b, t, start) ==
  LET c == buf(b, t.index)
      adv(n) == [t EXCEPT !.index = @ + n]
      brk(i) == [t EXCEPT !.index = i, !.line_start = i]
  IN CASE c = NUL -> make_token(t, "Eof", start)
       [] c = LF -> make_token(brk(t.index + 1), "Newline", start)
       [] c = BACKSLASH ->
            IF t.index + 1 < Len(b) /\ buf(b, t.index + 1) = LF
            THEN make_token(brk(t.index + 2), "HardBreak", start)
            ELSE Call("text", <<b, t, start>>)
       [] c = SPACE ->
            LET temp_idx == ScanIn(b, t.index, {SPACE})
                space_count == temp_idx - t.index
            IN IF space_count >= 2 /\ temp_idx < Len(b) /\ buf(b, temp_idx) = LF
               THEN make_token(brk(temp_idx + 1), "HardBreak", start)
               ELSE Call("text", <<b, t, start>>)
       [] c = LBRACE -> make_token(push_mode(adv(1), "Expression"), "ExprStart", start)
       [] c = LT ->
            IF is_jsx_start(b, t) THEN Call("next_jsx", <<b, push_mode(t, "Jsx")>>) ELSE Call("text", <<b, t, start>>)
       [] c = STAR ->
            IF is_keycap_emoji_start(b, start) THEN Call("text", <<b, t, start>>)
            ELSE maybe_strong_or_emphasis(b, adv(1), start)
       [] c = BACKTICK -> make_token(push_mode(adv(1), "InlineCode"), "CodeInlineStart", start)
       [] c = LBRACKET ->
            make_token([t EXCEPT !.index = @ + 1, !.after_link_text = FALSE], "LinkStart", start)
       [] c = RBRACKET ->
            IF buf(b, t.index + 1) = LPAREN
            THEN make_token([t EXCEPT !.index = @ + 1, !.after_link_text = TRUE], "LinkEnd", start)
            ELSE Call("text", <<b, [t EXCEPT !.index = @ + 1, !.after_link_text = FALSE], start>>)
       [] c = LPAREN ->
            IF t.after_link_text
            THEN make_token([t EXCEPT !.index = @ + 1, !.after_link_text = FALSE,
                                      !.in_link_url = TRUE], "LinkUrlStart", start)
            ELSE Call("text", <<b, t, start>>)
       [] c = RPAREN ->
            IF t.in_link_url
            THEN make_token([t EXCEPT !.index = @ + 1, !.in_link_url = FALSE], "LinkUrlEnd", start)
            ELSE Call("text", <<b, t, start>>)
       [] c = BANG ->
            IF t.index + 1 < Len(b) /\ buf(b, t.index + 1) = LBRACKET
            THEN make_token(adv(2), "ImageStart", start)
            ELSE Call("text", <<b, adv(1), start>>)
       [] OTHER -> Call("text", <<b, t, start>>)

\* called with index just past the first marker byte
hr_or_frontmatter(b, t0, start, first_char) ==
  LET i == ScanIn(b, t0.index, {first_char})
      count == 1 + (i - t0.index)
      t == [t0 EXCEPT !.index = i]
      next_byte == buf(b, i)
  IN IF first_char = MINUS /\ count >= 3 /\ start = 0 /\ next_byte \in {LF, NUL}
       THEN make_token(t, "FrontmatterStart", start)
     ELSE IF count >= 3 /\ next_byte \in {LF, NUL} THEN make_token(t, "Hr", start)
     ELSE IF first_char \in {MINUS, STAR} /\ next_byte = SPACE
       THEN make_token(try_checkbox(b, [t EXCEPT !.index = i + 1]), "ListItemUnordered", start)
     ELSE IF first_char = STAR
       THEN maybe_strong_or_emphasis(b, [t EXCEPT !.index = start + 1], start)
     ELSE Call("text", <<b, t, start>>)

next_markdown_sol(b, t, start) ==
  LET c == buf(b, t.index)
      adv(n) == [t EXCEPT !.index = @ + n]
  IN CASE c = NUL -> make_token(t, "Eof", start)
       [] c = LF ->
            make_token([t EXCEPT !.index = @ + 1, !.line_start = t.index + 1], "BlankLine", start)
       [] c = HASH ->
            IF is_keycap_emoji_start(b, start) THEN Call("next_markdown_inline", <<b, t, start>>)
            ELSE LET i == ScanIn(b, t.index + 1, {HASH})
                     j == IF buf(b, i) = SPACE THEN i + 1 ELSE i
                 IN make_token([t EXCEPT !.index = j], "HeadingStart", start)
       [] c \in {MINUS, STAR, UNDERSCORE} ->
            IF c = STAR /\ is_keycap_emoji_start(b, start) THEN Call("next_markdown_inline", <<b, t, start>>)
            ELSE Call("hr_or_frontmatter", <<b, adv(1), start, c>>)
       [] c = BACKTICK ->
            IF peek_ahead(b, t, FENCE)
            THEN make_token(push_mode(adv(3), "CodeBlock"), "CodeFenceStart", start)
            ELSE Call("next_markdown_inline", <<b, t, start>>)
       [] c = GT ->
            make_token(adv(IF buf(b, t.index + 1) = SPACE THEN 2 ELSE 1), "BlockquoteStart", start)
       [] c \in {SPACE, TAB} ->
            make_token([t EXCEPT !.index = ScanIn(b, t.index, {SPACE, TAB})], "Indent", start)
       [] c \in Digits ->
            IF is_keycap_emoji_start(b, start) THEN Call("next_markdown_inline", <<b, t, start>>)
            ELSE LET temp_index == ScanIn(b, t.index, Digits)
                 IN IF /\ temp_index < Len(b) /\ buf(b, temp_index) = DOT
                       /\ temp_index + 1 < Len(b) /\ buf(b, temp_index + 1) = SPACE
                    THEN make_token(try_checkbox(b, [t EXCEPT !.index = temp_index + 2]),
                                    "ListItemOrdered", start)
                    ELSE Call("next_markdown_inline", <<b, t, start>>)
       [] OTHER -> Call("next_markdown_inline", <<b, t, start>>)

next_markdown(b, t) ==
  IF t.index >= Len(b) THEN make_token(t, "Eof", t.index)
  ELSE IF t.index = t.line_start THEN Call("next_markdown_sol", <<b, t, t.index>>)
  ELSE Call("next_markdown_inline", <<b, t, t.index>>)

\* Tokenizer::next
next(b, t) ==
  IF t.pending_token # <<>>
  THEN [t |-> [t EXCEPT !.pending_token = <<>>], tok |-> t.pending_token[1]]
  ELSE CASE t.mode = "Markdown" -> Call("next_markdown", <<b, t>>)
         [] t.mode = "Jsx" -> Call("next_jsx", <<b, t>>)
         [] t.mode = "Expression" -> Call("next_expression", <<b, t>>)
         [] t.mode = "InlineCode" -> next_inline_code(b, t)
         [] t.mode = "CodeBlock" -> Call("next_code_block", <<b, t>>)

\* the tokenization loop of parse_with_options as a function: every token up
\* to and including Eof.  A call that returns a token other than Eof and
\* leaves the tokenizer as it was would repeat for ever: ok is FALSE then.
tokenize_from(b, t, acc) ==
  LET r == Call("next", <<b, t>>)
  IN IF r.tok.tag = "Eof" THEN [ok |-> TRUE, tokens |-> Append(acc, r.tok)]
     ELSE IF r.t = t THEN [ok |-> FALSE, tokens |-> Append(acc, r.tok)]
     ELSE Call("tokenize_from", <<b, r.t, Append(acc, r.tok)>>)

tokenize(b) == Call("tokenize_from", <<b, Tokenizer_new, <<>>>>)

(***************************************************************************)
(* Parser.  A sub-parser is an operator from a Parser value to             *)
(* [ps, ok, val]: the Parser after the call, Ok/Err, and the Ok value.     *)
(***************************************************************************)
MAX_PARSE_ERRORS == 4096

\* u32::MAX is 4294967295; the integers of the checker end at 2^31 - 1, which
\* stands for it: like u32::MAX it is above every index and offset that a
\* source of this model's size can give
U32_MAX == 2147483647

Parser_new(src, toks) ==
  [source |-> src,
   token_tags |-> [i \in 1..Len(toks) |-> toks[i].tag],
   token_starts |-> [i \in 1..Len(toks) |-> toks[i].start],
   token_index |-> 0, nodes |-> <<>>, extra_data |-> <<>>, scratch |-> <<>>, errors |-> <<>>]

Ok(ps, v) == [ps |-> ps, ok |-> TRUE, val |-> v]

Err(ps) == [ps |-> ps, ok |-> FALSE, val |-> 0]

DataNone == [kind |-> "None", a |-> 0, b |-> 0]

DataToken(t) == [kind |-> "Token", a |-> t, b |-> 0]

DataChildren(range) == [kind |-> "Children", a |-> range[1], b |-> range[2]]

DataExtra(i) == [kind |-> "Extra", a |-> i, b |-> 0]

Node(tag, main_token, data) == [tag |-> tag, main_token |-> main_token, data |-> data]

current_tag(ps) == At(ps.token_tags, ps.token_index)

advance(ps) == [ps EXCEPT !.token_index = @ + 1]

byte_offset_for_token(ps, token) ==
  IF token < Len(ps.token_starts) THEN At(ps.token_starts, token) ELSE Len(ps.source)

\* warn_at that blames the current token instead of the one it is given
warn_at_current(ps, tag, token) ==
  IF Len(ps.errors) >= MAX_PARSE_ERRORS THEN ps
  ELSE [ps EXCEPT !.errors = Append(@, [tag |-> tag, token |-> ps.token_index,
                                        byte_offset |-> byte_offset_for_token(ps, ps.token_index)])]

\* warn_at without the MAX_PARSE_ERRORS test
warn_at_unbounded(ps, tag, token) ==
  [ps EXCEPT !.errors = Append(@, [tag |-> tag, token |-> token,
                                   byte_offset |-> byte_offset_for_token(ps, token)])]

warn_at(ps, tag, token) ==
  IF Len(ps.errors) >= MAX_PARSE_ERRORS THEN ps
  ELSE [ps EXCEPT !.errors = Append(@, [tag |-> tag, token |-> token,
                                        byte_offset |-> byte_offset_for_token(ps, token)])]

warn(ps, tag) == warn_at(ps, tag, ps.token_index)

\* Option<TokenIndex>: ok is is_some()
eat_token(ps, tag) == IF current_tag(ps) = tag THEN Ok(advance(ps), ps.token_index) ELSE Err(ps)

\* expect_token that reports a failed expectation twice
expect_token_warns_twice(ps, tag) ==
  IF current_tag(ps) = tag THEN Ok(advance(ps), ps.token_index)
  ELSE Err(warn(warn(ps, "ExpectedToken"), "UnexpectedToken"))

expect_token(ps, tag) ==
  IF current_tag(ps) = tag THEN Ok(advance(ps), ps.token_index)
  ELSE Err(warn(ps, "ExpectedToken"))

next_token(ps) == Ok(advance(ps), ps.token_index)

peek_token(ps, offset) ==
  IF ps.token_index + offset >= Len(ps.token_tags) THEN "Eof"
  ELSE At(ps.token_tags, ps.token_index + offset)

add_node(ps, node) == Ok([ps EXCEPT !.nodes = Append(@, node)], Len(ps.nodes))

reserve_node(ps, tag) == add_node(ps, Node(tag, 0, DataNone))

set_node(ps, index, node) == Ok([ps EXCEPT !.nodes[index + 1] = node], index)

\* the add_extra_* methods push the record's fields and return where it starts
add_extra(ps, fields) == Ok([ps EXCEPT !.extra_data = @ \o fields], Len(ps.extra_data))

add_extra_heading(ps, level, children) == add_extra(ps, <<level, children[1], children[2]>>)

add_extra_list_item(ps, checked, children) == add_extra(ps, <<checked, children[1], children[2]>>)

add_extra_jsx_element(ps, name, attrs, children) ==
  add_extra(ps, <<name, attrs[1], attrs[2], children[1], children[2]>>)

add_extra_link(ps, text_node, url_token) == add_extra(ps, <<text_node, url_token>>)

add_extra_range(ps, range) == add_extra(ps, <<range[1], range[2]>>)

add_extra_frontmatter(ps, format, content_start, content_end) ==
  add_extra(ps, <<format, content_start, content_end>>)

\* list_to_span that stores, for each item, its distance from the end of nodes
list_to_span_shifted(ps, items) ==
  Ok([ps EXCEPT !.extra_data = @ \o [i \in 1..Len(items) |-> Len(ps.nodes) + items[i]]],
     <<Len(ps.extra_data), Len(ps.extra_data) + Len(items)>>)

list_to_span(ps, items) ==
  Ok([ps EXCEPT !.extra_data = @ \o items],
     <<Len(ps.extra_data), Len(ps.extra_data) + Len(items)>>)

\* `self.scratch[scratch_top..].to_vec(); self.scratch.truncate(scratch_top);
\*  self.list_to_span(&children)`
take_scratch(ps, scratch_top) ==
  list_to_span([ps EXCEPT !.scratch = SubSeq(@, 1, scratch_top)],
               SubSeq(ps.scratch, scratch_top + 1, Len(ps.scratch)))

push_scratch(ps, node) == [ps EXCEPT !.scratch = Append(@, node)]

Slice(src, start, end) == SubSeq(src, start + 1, end)

token_slice(ps, token_index) ==
  Slice(ps.source, At(ps.token_starts, token_index),
        IF token_index + 1 < Len(ps.token_starts) THEN At(ps.token_starts, token_index + 1)
        ELSE Len(ps.source))

\* str::trim.  The White_Space code points below U+0080; the others take two
\* or three bytes and occur in no input of this model.
WhiteSpace == {9, 10, 11, 12, 13, 32}

RECURSIVE trim_start(_)
trim_start(s) == IF s # <<>> /\ s[1] \in WhiteSpace THEN trim_start(Tail(s)) ELSE s

RECURSIVE trim_end(_)
trim_end(s) ==
  IF s # <<>> /\ Last(s) \in WhiteSpace THEN trim_end(SubSeq(s, 1, Len(s) - 1)) ELSE s

trim(s) == trim_end(trim_start(s))

\* ASCII strings the code compares with, as bytes
STR_hnmd == <<104, 110, 109, 100>>
STR_true == <<116, 114, 117, 101>>
STR_false == <<102, 97, 108, 115, 101>>
STR_inf == <<105, 110, 102>>
STR_infinity == <<105, 110, 102, 105, 110, 105, 116, 121>>
STR_nan == <<110, 97, 110>>

to_ascii_lowercase(s) == [i \in 1..Len(s) |-> IF s[i] \in Upper THEN s[i] + 32 ELSE s[i]]

\* <f64 as FromStr>: [+-]? ( digits [. digits] | . digits ) ( [eE] [+-]? digits )?
\* or, in any letter case, inf / infinity / nan.  The pieces of a decimal
\* literal s, as offsets into s.
f64_parts(s) ==
  LET sign_len == IF s # <<>> /\ s[1] \in {43, MINUS} THEN 1 ELSE 0
      int_end == ScanIn(s, sign_len, Digits)
      has_dot == int_end < Len(s) /\ s[int_end + 1] = DOT
      frac_end == IF has_dot THEN ScanIn(s, int_end + 1, Digits) ELSE int_end
      has_exp == frac_end < Len(s) /\ s[frac_end + 1] \in {101, 69}
      exp_sign == IF has_exp /\ frac_end + 1 < Len(s) /\ s[frac_end + 2] \in {43, MINUS} THEN 1 ELSE 0
      exp_start == frac_end + 1 + exp_sign
      exp_end == IF has_exp THEN ScanIn(s, exp_start, Digits) ELSE frac_end
  IN [sign_len |-> sign_len, int_end |-> int_end, has_dot |-> has_dot, frac_end |-> frac_end,
      has_exp |-> has_exp, exp_start |-> exp_start, exp_end |-> exp_end,
      negative |-> sign_len = 1 /\ s[1] = MINUS,
      exp_negative |-> exp_sign = 1 /\ s[frac_end + 2] = MINUS]

is_f64_decimal(s) ==
  LET q == Call("f64_parts", <<s>>)
      digit_count == (q.int_end - q.sign_len) + (IF q.has_dot THEN q.frac_end - (q.int_end + 1) ELSE 0)
  IN /\ digit_count > 0
     /\ q.has_exp => q.exp_end > q.exp_start
     /\ q.exp_end = Len(s)

is_f64_special(s) ==
  LET sign_len == IF s # <<>> /\ s[1] \in {43, MINUS} THEN 1 ELSE 0
      rest == to_ascii_lowercase(SubSeq(s, sign_len + 1, Len(s)))
  IN rest \in {STR_inf, STR_infinity, STR_nan}

parse_f64_is_ok(s) == Call("is_f64_decimal", <<s>>) \/ is_f64_special(s)

\* JsxAttributeType as stored by jsx_attr_type_to_raw
JSX_STRING == 0
JSX_NUMBER == 1
JSX_BOOLEAN == 2
JSX_EXPRESSION == 3

infer_unquoted_jsx_value_type(value) ==
  IF value = STR_true \/ value = STR_false THEN JSX_BOOLEAN
  ELSE IF Call("parse_f64_is_ok", <<value>>) THEN JSX_NUMBER
  ELSE JSX_STRING

\* FrontmatterFormat as stored by add_extra_frontmatter
FM_YAML == 0
FM_JSON == 1

\* `while current_tag() != a && current_tag() != Eof { token_index += 1 }`
RECURSIVE skip_until(_, _)
skip_until(ps, tags) ==
  IF current_tag(ps) \in tags THEN ps ELSE skip_until(advance(ps), tags)

\* parse_yaml_frontmatter that steps over the token after the closing Hr as well
parse_yaml_frontmatter_past_closer(ps0, start_token) ==
  LET p1 == eat_token(ps0, "Newline").ps
      content_start == p1.token_index
      p2 == skip_until(p1, {"Hr", "Eof"})
      content_end == p2.token_index
  IN IF current_tag(p2) # "Hr" THEN Err(warn(p2, "UnclosedFrontmatter"))
     ELSE LET e == add_extra_frontmatter(advance(advance(p2)), FM_YAML, content_start, content_end)
          IN add_node(e.ps, Node("Frontmatter", start_token, DataExtra(e.val)))

\* parse_yaml_frontmatter whose content range starts before the newline of
\* the opener line is skipped
parse_yaml_frontmatter_from_opener(ps0, start_token) ==
  LET p1 == eat_token(ps0, "Newline").ps
      content_start == ps0.token_index
      p2 == skip_until(p1, {"Hr", "Eof"})
      content_end == p2.token_index
  IN IF current_tag(p2) # "Hr" THEN Err(warn(p2, "UnclosedFrontmatter"))
     ELSE LET e == add_extra_frontmatter(advance(p2), FM_YAML, content_start, content_end)
          IN add_node(e.ps, Node("Frontmatter", start_token, DataExtra(e.val)))

parse_yaml_frontmatter(ps0, start_token) ==
  LET p1 == eat_token(ps0, "Newline").ps
      content_start == p1.token_index
      p2 == skip_until(p1, {"Hr", "Eof"})
      content_end == p2.token_index
  IN IF current_tag(p2) # "Hr" THEN Err(warn(p2, "UnclosedFrontmatter"))
     ELSE LET e == add_extra_frontmatter(advance(p2), FM_YAML, content_start, content_end)
          IN add_node(e.ps, Node("Frontmatter", start_token, DataExtra(e.val)))

is_json_frontmatter(ps) ==
  /\ peek_token(ps, 0) = "CodeFenceStart"
  /\ peek_token(ps, 1) = "Text"
  /\ trim(token_slice(ps, ps.token_index + 1)) = STR_hnmd

parse_json_frontmatter(ps0) ==
  LET start_token == ps0.token_index
      r1 == expect_token(advance(ps0), "Text")
      p2 == eat_token(r1.ps, "Newline").ps
      content_start == p2.token_index
      p3 == skip_until(p2, {"CodeFenceEnd", "Eof"})
      content_end == p3.token_index
  IN IF ~r1.ok THEN Err(r1.ps)
     ELSE IF current_tag(p3) # "CodeFenceEnd" THEN Err(warn(p3, "UnclosedFrontmatter"))
     ELSE LET e == add_extra_frontmatter(advance(p3), FM_JSON, content_start, content_end)
          IN add_node(e.ps, Node("Frontmatter", start_token, DataExtra(e.val)))

parse_text(ps) == add_node(advance(ps), Node("Text", ps.token_index, DataNone))

parse_hard_break(ps) == add_node(advance(ps), Node("HardBreak", ps.token_index, DataNone))

parse_hr(ps) == add_node(advance(ps), Node("Hr", ps.token_index, DataNone))

parse_code_inline(ps) ==
  LET start_token == ps.token_index
      r1 == expect_token(advance(ps), "Text")
      r2 == expect_token(r1.ps, "CodeInlineEnd")
  IN IF ~r1.ok THEN Err(r1.ps)
     ELSE IF ~r2.ok THEN Err(r2.ps)
     ELSE add_node(r2.ps, Node("CodeInline", start_token, DataToken(start_token + 1)))

\* parse_link and parse_image differ in the node tag only
parse_link_as(ps, tag) ==
  LET start_token == ps.token_index
      p1 == advance(ps)
      has_text == current_tag(p1) = "Text"
      rt == IF has_text THEN parse_text(p1) ELSE Ok(p1, U32_MAX)
      r1 == expect_token(rt.ps, "LinkEnd")
      r2 == expect_token(r1.ps, "LinkUrlStart")
      r3 == expect_token(r2.ps, "Text")
      r4 == expect_token(r3.ps, "LinkUrlEnd")
  IN IF ~r1.ok THEN Err(r1.ps)
     ELSE IF ~r2.ok THEN Err(r2.ps)
     ELSE IF ~r3.ok THEN Err(r3.ps)
     ELSE IF ~r4.ok THEN Err(r4.ps)
     ELSE LET e == add_extra_link(r4.ps, rt.val, r3.val)
          IN add_node(e.ps, Node(tag, start_token, DataExtra(e.val)))

parse_link(ps) == Call("parse_link_as", <<ps, "Link">>)

parse_image(ps) == Call("parse_link_as", <<ps, "Image">>)

parse_code_block(ps) ==
  LET start_token == ps.token_index
      p1 == eat_token(advance(ps), "Text").ps
      p2 == eat_token(p1, "Newline").ps
      p3 == skip_until(p2, {"CodeFenceEnd", "Eof"})
      r == expect_token(p3, "CodeFenceEnd")
  IN IF ~r.ok THEN Err(r.ps)
     ELSE add_node(r.ps, Node("CodeBlock", start_token, DataNone))

\* the depth-counting loop of parse_text_expression / parse_jsx_attribute_value
RECURSIVE expr_scan(_, _)
expr_scan(ps, depth) ==
  IF depth > 0 /\ current_tag(ps) # "Eof"
  THEN LET d == CASE current_tag(ps) = "ExprStart" -> depth + 1
                  [] current_tag(ps) = "ExprEnd" -> depth - 1
                  [] OTHER -> depth
       IN expr_scan(IF d > 0 THEN advance(ps) ELSE ps, d)
  ELSE [ps |-> ps, depth |-> depth]

parse_text_expression(ps) ==
  LET r0 == expect_token(ps, "ExprStart")
      content_start == r0.ps.token_index
      s == expr_scan(r0.ps, 1)
      content_end == s.ps.token_index
      r1 == expect_token(s.ps, "ExprEnd")
  IN IF ~r0.ok THEN Err(r0.ps)
     ELSE IF s.depth > 0 THEN Err(warn(s.ps, "UnclosedExpression"))
     ELSE IF ~r1.ok THEN Err(r1.ps)
     ELSE LET e == add_extra_range(r1.ps, <<content_start, content_end>>)
          IN add_node(e.ps, Node("MdxTextExpression", r0.val, DataExtra(e.val)))

\* val is <<value token or U32_MAX for None, raw attribute type>>
parse_jsx_attribute_value(ps) ==
  LET tag == current_tag(ps)
  IN CASE tag = "JsxString" -> Ok(advance(ps), <<ps.token_index, JSX_STRING>>)
       [] tag = "JsxAttrExprStart" ->
            LET expr_content_start == ps.token_index + 1
                s == expr_scan(advance(ps), 1)
                r == expect_token(s.ps, "ExprEnd")
            IN IF s.depth > 0 THEN Err(warn(s.ps, "UnclosedExpression"))
               ELSE IF ~r.ok THEN Err(r.ps)
               ELSE Ok(r.ps, <<IF expr_content_start = Max(r.ps.token_index - 1, 0)
                               THEN U32_MAX ELSE expr_content_start,
                               JSX_EXPRESSION>>)
       [] tag \in {"JsxIdentifier", "Text"} ->
            Ok(advance(ps),
               <<ps.token_index, Call("infer_unquoted_jsx_value_type", <<trim(token_slice(ps, ps.token_index))>>)>>)
       [] OTHER -> Err(warn(ps, "InvalidJsxAttribute"))

parse_jsx_closing_tag(ps) ==
  LET close_tag_token == Max(ps.token_index - 1, 0)
      p1 == warn_at(ps, "UnexpectedToken", close_tag_token)
      r1 == expect_token(p1, "JsxIdentifier")
      r2 == expect_token(r1.ps, "JsxTagEnd")
  IN IF ~r1.ok THEN Err(r1.ps) ELSE Err(r2.ps)

\* the attribute loop of parse_jsx_element
jsx_attributes_loop(ps) ==
  IF current_tag(ps) # "JsxIdentifier" THEN Ok(ps, 0)
  ELSE LET attr_name == ps.token_index
           p1 == advance(ps)
           has_value == current_tag(p1) = "JsxEqual"
           rv == IF has_value THEN Call("parse_jsx_attribute_value", <<advance(p1)>>)
                 ELSE Ok(p1, <<U32_MAX, JSX_BOOLEAN>>)
       IN IF ~rv.ok THEN Err(rv.ps)
          ELSE Call("jsx_attributes_loop", <<
                 [rv.ps EXCEPT !.extra_data = @ \o <<attr_name, rv.val[1], rv.val[2]>>]>>)

\* the while loop of parse_inline_content; `parse_inline()?` returns at once,
\* leaving on scratch what the loop has pushed
inline_content_loop(ps, end_tag) ==
  IF current_tag(ps) \in {end_tag, "Eof", "BlankLine"} THEN Ok(ps, 0)
  ELSE IF current_tag(ps) = "Newline" THEN Call("inline_content_loop", <<advance(ps), end_tag>>)
  ELSE LET r == Call("parse_inline", <<ps>>)
           p1 == push_scratch(r.ps, r.val)
       IN IF ~r.ok THEN Err(r.ps)
          ELSE Call("inline_content_loop", <<IF p1.token_index = ps.token_index THEN advance(p1) ELSE p1,
                                   end_tag>>)

parse_inline_content(ps, end_tag) ==
  LET scratch_top == Len(ps.scratch)
      r == Call("inline_content_loop", <<ps, end_tag>>)
  IN IF ~r.ok THEN Err(r.ps)
     ELSE take_scratch(eat_token(r.ps, end_tag).ps, scratch_top)

\* parse_paragraph, parse_strong, parse_emphasis and parse_blockquote share
\* their second half: parse_inline_content into the reserved node, which gets
\* the children range 0..0 when that fails
finish_children_node(ps, tag, main_token, node_index, end_tag) ==
  LET r == Call("parse_inline_content", <<ps, end_tag>>)
  IN IF ~r.ok
     THEN Err(set_node(r.ps, node_index, Node(tag, main_token, DataChildren(<<0, 0>>))).ps)
     ELSE set_node(r.ps, node_index, Node(tag, main_token, DataChildren(r.val)))

parse_paragraph(ps) ==
  LET n == reserve_node(ps, "Paragraph")
  IN Call("finish_children_node", <<n.ps, "Paragraph", ps.token_index, n.val, "BlankLine">>)

parse_strong(ps) ==
  LET n == reserve_node(advance(ps), "Strong")
  IN Call("finish_children_node", <<n.ps, "Strong", ps.token_index, n.val, "StrongEnd">>)

parse_emphasis(ps) ==
  LET n == reserve_node(advance(ps), "Emphasis")
  IN Call("finish_children_node", <<n.ps, "Emphasis", ps.token_index, n.val, "EmphasisEnd">>)

parse_blockquote(ps) ==
  LET n == reserve_node(advance(ps), "Blockquote")
  IN Call("finish_children_node", <<eat_token(n.ps, "Space").ps, "Blockquote", ps.token_index, n.val,
                          "Newline">>)

\* `heading_text.bytes().take_while(|&ch| ch == b'#').count() as u8`
\* the largest value of the u8 that parse_heading casts the count to
U8_MAX == 255

heading_level(heading_text) == ScanIn(heading_text, 0, {HASH}) % (U8_MAX + 1)

parse_heading(ps) ==
  LET heading_token == ps.token_index
      level == heading_level(token_slice(ps, heading_token))
      n == reserve_node(advance(ps), "Heading")
      r == Call("parse_inline_content", <<n.ps, "Newline">>)
      e == Call("add_extra_heading", <<r.ps, level, IF r.ok THEN r.val ELSE <<0, 0>>>>)
      s == set_node(e.ps, n.val, Node("Heading", heading_token, DataExtra(e.val)))
  IN IF r.ok THEN s ELSE Err(s.ps)

parse_list_item(ps) ==
  LET item_token == ps.token_index
      n == reserve_node(advance(ps), "ListItem")
      unchecked == eat_token(n.ps, "CheckboxUnchecked")
      checked == eat_token(n.ps, "CheckboxChecked")
      p1 == IF unchecked.ok THEN unchecked.ps ELSE IF checked.ok THEN checked.ps ELSE n.ps
      checked_raw == IF unchecked.ok THEN 1 ELSE IF checked.ok THEN 2 ELSE 0
      r == Call("parse_inline_content", <<p1, "Newline">>)
      e == Call("add_extra_list_item", <<r.ps, checked_raw, IF r.ok THEN r.val ELSE <<0, 0>>>>)
      s == set_node(e.ps, n.val, Node("ListItem", item_token, DataExtra(e.val)))
  IN IF r.ok THEN s ELSE Err(s.ps)

list_items_loop(ps, first_item_tag) ==
  IF current_tag(ps) # first_item_tag THEN Ok(ps, 0)
  ELSE LET r == Call("parse_list_item", <<ps>>)
       IN IF ~r.ok THEN Err(r.ps)
          ELSE Call("list_items_loop", <<push_scratch(r.ps, r.val), first_item_tag>>)

\* on Ok and on Err alike the list node gets what is on scratch above scratch_top
parse_list(ps) ==
  LET first_item_tag == current_tag(ps)
      list_tag == IF first_item_tag = "ListItemOrdered" THEN "ListOrdered" ELSE "ListUnordered"
      start_token == ps.token_index
      n == reserve_node(ps, list_tag)
      scratch_top == Len(n.ps.scratch)
      r == Call("list_items_loop", <<n.ps, first_item_tag>>)
      c == take_scratch(r.ps, scratch_top)
      s == set_node(c.ps, n.val, Node(list_tag, start_token, DataChildren(c.val)))
  IN IF r.ok THEN s ELSE Err(s.ps)

parse_inline(ps) ==
  LET tag == current_tag(ps)
  IN CASE tag \in {"Text", "Indent", "Space"} -> parse_text(ps)
       [] tag = "StrongStart" -> Call("parse_strong", <<ps>>)
       [] tag = "EmphasisStart" -> Call("parse_emphasis", <<ps>>)
       [] tag = "CodeInlineStart" -> Call("parse_code_inline", <<ps>>)
       [] tag = "LinkStart" -> Call("parse_link", <<ps>>)
       [] tag = "ImageStart" -> Call("parse_image", <<ps>>)
       [] tag = "HardBreak" -> parse_hard_break(ps)
       [] tag = "ExprStart" -> Call("parse_text_expression", <<ps>>)
       [] tag = "JsxTagStart" -> Call("parse_jsx_element", <<ps>>)
       [] OTHER -> Err(advance(warn(ps, "UnexpectedToken")))

parse_block(ps) ==
  LET tag == current_tag(ps)
  IN CASE tag = "HeadingStart" -> Call("parse_heading", <<ps>>)
       [] tag = "CodeFenceStart" -> Call("parse_code_block", <<ps>>)
       [] tag = "Hr" -> parse_hr(ps)
       [] tag = "BlockquoteStart" -> Call("parse_blockquote", <<ps>>)
       [] tag \in {"ListItemUnordered", "ListItemOrdered"} -> Call("parse_list", <<ps>>)
       [] tag = "Pipe" -> Call("parse_table", <<ps>>)
       [] tag = "JsxTagStart" -> Call("parse_jsx_element", <<ps>>)
       [] OTHER -> Call("parse_paragraph", <<ps>>)

\* forward-progress guard: `if token_index == before { warn(UnexpectedToken); token_index += 1 }`
progress_guard(ps, before) ==
  IF ps.token_index = before THEN advance(warn(ps, "UnexpectedToken")) ELSE ps

\* the children loop of parse_jsx_element
jsx_children_loop(ps) ==
  LET tag == current_tag(ps)
      before == ps.token_index
      child == CASE tag = "JsxTagStart" -> Call("parse_block", <<ps>>)
                 [] tag = "ExprStart" -> Call("parse_text_expression", <<ps>>)
                 [] tag \in {"Text", "Indent", "Space"} -> parse_text(ps)
                 [] tag = "CodeInlineStart" -> Call("parse_code_inline", <<ps>>)
                 [] tag = "StrongStart" -> Call("parse_strong", <<ps>>)
                 [] tag = "EmphasisStart" -> Call("parse_emphasis", <<ps>>)
                 [] tag = "LinkStart" -> Call("parse_link", <<ps>>)
                 [] tag = "ImageStart" -> Call("parse_image", <<ps>>)
                 [] tag = "HardBreak" -> parse_hard_break(ps)
                 [] tag = "HeadingStart" -> Call("parse_heading", <<ps>>)
      skipped == \/ tag \notin {"JsxTagStart", "ExprStart", "Text", "Indent", "Space",
                                "CodeInlineStart", "StrongStart", "EmphasisStart", "LinkStart",
                                "ImageStart", "HardBreak", "HeadingStart"}
                 \/ /\ tag = "Indent"
                    /\ peek_token(ps, 1) \in {"JsxTagStart", "JsxCloseTag", "Newline",
                                              "BlankLine", "Eof"}
  IN IF tag \in {"JsxCloseTag", "Eof"} THEN Ok(ps, 0)
     ELSE IF tag = "JsxTagStart" /\ peek_token(ps, 1) = "JsxCloseTag" THEN Ok(ps, 0)
     ELSE IF skipped THEN Call("jsx_children_loop", <<progress_guard(advance(ps), before)>>)
     ELSE IF ~child.ok THEN Err(child.ps)
     ELSE Call("jsx_children_loop", <<progress_guard(push_scratch(child.ps, child.val), before)>>)

parse_jsx_element(ps) ==
  LET r0 == expect_token(ps, "JsxTagStart")
      open_bracket == r0.val
      rn == expect_token(r0.ps, "JsxIdentifier")
      name == rn.val
      open_name == trim(token_slice(ps, name))
      attrs_start == Len(rn.ps.extra_data)
      ra == Call("jsx_attributes_loop", <<rn.ps>>)
      attrs == <<attrs_start, Len(ra.ps.extra_data)>>
      self_closing == Call("add_extra_jsx_element", <<advance(ra.ps), name, attrs, <<0, 0>>>>)
      scratch_top == Len(ra.ps.scratch)
      rc == Call("jsx_children_loop", <<advance(ra.ps)>>)
      span == take_scratch(rc.ps, scratch_top)
      r1 == expect_token(span.ps, "JsxCloseTag")
      close_tag_token == r1.val
      r2 == expect_token(r1.ps, "JsxIdentifier")
      r3 == expect_token(r2.ps, "JsxTagEnd")
      e == Call("add_extra_jsx_element", <<r3.ps, name, attrs, span.val>>)
  IN IF ~r0.ok THEN Err(r0.ps)
     ELSE IF current_tag(r0.ps) = "JsxCloseTag" THEN Call("parse_jsx_closing_tag", <<advance(r0.ps)>>)
     ELSE IF peek_token(r0.ps, 0) = "JsxTagEnd" THEN Call("parse_jsx_fragment", <<r0.ps>>)
     ELSE IF ~rn.ok THEN Err(rn.ps)
     ELSE IF ~ra.ok THEN Err(ra.ps)
     ELSE IF current_tag(ra.ps) \notin {"JsxSelfClose", "JsxTagEnd"}
       THEN Err(warn(ra.ps, "InvalidJsxAttribute"))
     ELSE IF current_tag(ra.ps) = "JsxSelfClose"
       THEN add_node(self_closing.ps, Node("MdxJsxSelfClosing", open_bracket,
                                           DataExtra(self_closing.val)))
     ELSE IF ~rc.ok THEN Err(rc.ps)
     ELSE IF ~r1.ok THEN Err(r1.ps)
     ELSE IF ~r2.ok THEN Err(r2.ps)
     ELSE IF trim(token_slice(ps, r2.val)) # open_name
       THEN Err(eat_token(warn_at(r2.ps, "MismatchedTags", close_tag_token), "JsxTagEnd").ps)
     ELSE IF ~r3.ok THEN Err(r3.ps)
     ELSE add_node(e.ps, Node("MdxJsxElement", open_bracket, DataExtra(e.val)))

jsx_fragment_loop(ps) ==
  IF current_tag(ps) = "JsxTagStart" /\ peek_token(ps, 1) = "JsxCloseTag" THEN Ok(ps, 0)
  ELSE IF current_tag(ps) = "Eof" THEN Err(warn(ps, "ExpectedClosingTag"))
  ELSE LET r == Call("parse_block", <<ps>>)
       IN IF ~r.ok THEN Err(r.ps)
          ELSE Call("jsx_fragment_loop", <<progress_guard(push_scratch(r.ps, r.val), ps.token_index)>>)

parse_jsx_fragment(ps) ==
  LET open_bracket == ps.token_index - 1
      r0 == expect_token(ps, "JsxTagEnd")
      scratch_top == Len(r0.ps.scratch)
      rc == Call("jsx_fragment_loop", <<r0.ps>>)
      span == take_scratch(rc.ps, scratch_top)
      r1 == expect_token(span.ps, "JsxTagStart")
      r2 == expect_token(r1.ps, "JsxCloseTag")
      r3 == expect_token(r2.ps, "JsxTagEnd")
  IN IF ~r0.ok THEN Err(r0.ps)
     ELSE IF ~rc.ok THEN Err(rc.ps)
     ELSE IF ~r1.ok THEN Err(r1.ps)
     ELSE IF ~r2.ok THEN Err(r2.ps)
     ELSE IF ~r3.ok THEN Err(r3.ps)
     ELSE add_node(r3.ps, Node("MdxJsxFragment", open_bracket, DataChildren(span.val)))

\* TableAlignment as stored in extra_data
ALIGN_NONE == 0
ALIGN_LEFT == 1
ALIGN_CENTER == 2
ALIGN_RIGHT == 3

table_cell_loop(ps) ==
  IF current_tag(ps) \in {"Pipe", "Newline", "Eof", "BlankLine"} THEN Ok(ps, 0)
  ELSE LET r == Call("parse_inline", <<ps>>)
           p1 == push_scratch(r.ps, r.val)
       IN IF ~r.ok THEN Err(r.ps)
          ELSE Call("table_cell_loop", <<IF p1.token_index = ps.token_index THEN advance(p1) ELSE p1>>)

parse_table_cell(ps) ==
  LET start_token == ps.token_index
      n == reserve_node(ps, "TableCell")
      scratch_top == Len(n.ps.scratch)
      p1 == IF current_tag(n.ps) \in {"Space", "Indent"} THEN advance(n.ps) ELSE n.ps
      r == Call("table_cell_loop", <<p1>>)
      c == take_scratch(r.ps, scratch_top)
  IN IF ~r.ok THEN Err(r.ps)
     ELSE set_node(c.ps, n.val, Node("TableCell", start_token, DataChildren(c.val)))

table_row_loop(ps) ==
  IF current_tag(ps) \in {"Newline", "Eof", "BlankLine"} THEN Ok(ps, 0)
  ELSE LET r == Call("parse_table_cell", <<ps>>)
           p1 == push_scratch(r.ps, r.val)
           p2 == IF current_tag(p1) = "Pipe" THEN advance(p1) ELSE p1
       IN IF ~r.ok THEN Err(r.ps)
          ELSE IF current_tag(p1) = "Pipe" /\ current_tag(p2) \in {"Newline", "Eof", "BlankLine"}
            THEN Ok(p2, 0)
          ELSE Call("table_row_loop", <<IF p2.token_index = ps.token_index THEN advance(p2) ELSE p2>>)

parse_table_row(ps) ==
  LET start_token == ps.token_index
      r0 == expect_token(ps, "Pipe")
      n == reserve_node(r0.ps, "TableRow")
      scratch_top == Len(n.ps.scratch)
      r == Call("table_row_loop", <<n.ps>>)
      c == take_scratch(eat_token(r.ps, "Newline").ps, scratch_top)
  IN IF ~r0.ok THEN Err(r0.ps)
     ELSE IF ~r.ok THEN Err(r.ps)
     ELSE set_node(c.ps, n.val, Node("TableRow", start_token, DataChildren(c.val)))

starts_with(s, c) == s # <<>> /\ s[1] = c

ends_with(s, c) == s # <<>> /\ Last(s) = c

contains(s, c) == \E i \in 1..Len(s) : s[i] = c

\* the separator-row loop of parse_table: [ps, alignments]
table_separator_loop(ps, alignments) ==
  IF current_tag(ps) \in {"Newline", "Eof", "BlankLine"} THEN [ps |-> ps, alignments |-> alignments]
  ELSE IF current_tag(ps) \in {"Space", "Indent"} THEN Call("table_separator_loop", <<advance(ps), alignments>>)
  ELSE LET is_text == current_tag(ps) = "Text"
           cell == trim(token_slice(ps, ps.token_index))
           has_left_colon == is_text /\ starts_with(cell, COLON)
           has_right_colon == is_text /\ ends_with(cell, COLON)
           has_dash == is_text /\ contains(cell, MINUS)
           alignment == IF has_left_colon
                        THEN (IF has_right_colon THEN ALIGN_CENTER ELSE ALIGN_LEFT)
                        ELSE (IF has_right_colon THEN ALIGN_RIGHT ELSE ALIGN_NONE)
           p1 == IF is_text THEN advance(ps) ELSE ps
           p2 == IF current_tag(p1) = "Pipe" THEN advance(p1) ELSE p1
       IN Call("table_separator_loop", <<progress_guard(p2, ps.token_index),
                               IF has_dash THEN Append(alignments, alignment) ELSE alignments>>)

\* `Err(_) => break` in the body-row loop
table_body_loop(ps) ==
  IF current_tag(ps) # "Pipe" THEN ps
  ELSE LET r == Call("parse_table_row", <<ps>>)
           p1 == push_scratch(r.ps, r.val)
       IN IF ~r.ok THEN r.ps
          ELSE Call("table_body_loop", <<IF p1.token_index = ps.token_index THEN advance(p1) ELSE p1>>)

parse_table(ps) ==
  LET start_token == ps.token_index
      n == reserve_node(ps, "Table")
      scratch_top == Len(n.ps.scratch)
      rh == Call("parse_table_row", <<n.ps>>)
      p1 == push_scratch(rh.ps, rh.val)
      header == At(p1.nodes, rh.val).data
      num_columns == IF header.kind = "Children" THEN header.b - header.a ELSE 0
      sep == IF current_tag(p1) = "Pipe"
             THEN LET l == Call("table_separator_loop", <<advance(p1), <<>>>>)
                  IN [ps |-> eat_token(l.ps, "Newline").ps, alignments |-> l.alignments]
             ELSE [ps |-> p1, alignments |-> <<>>]
      alignments == [i \in 1..num_columns |->
                       IF i <= Len(sep.alignments) THEN sep.alignments[i] ELSE ALIGN_NONE]
      p2 == Call("table_body_loop", <<sep.ps>>)
      rows == SubSeq(p2.scratch, scratch_top + 1, Len(p2.scratch))
      p3 == [p2 EXCEPT !.scratch = SubSeq(@, 1, scratch_top)]
      e == add_extra(p3, <<num_columns, Len(rows)>> \o alignments \o rows)
  IN IF ~rh.ok THEN Err(rh.ps)
     ELSE set_node(e.ps, n.val, Node("Table", start_token, DataExtra(e.val)))

(***************************************************************************)
(* Ast accessors (src/src/ast.rs) and the renderer (src/src/render.rs).    *)
(* An Ast is a record of the six fields that parse_with_options returns.   *)
(***************************************************************************)
Ast_of(ps) ==
  [source |-> ps.source, token_tags |-> ps.token_tags, token_starts |-> ps.token_starts,
   nodes |-> ps.nodes, extra_data |-> ps.extra_data, errors |-> ps.errors]

extra_slice(ast, start, end) == SubSeq(ast.extra_data, start + 1, end)

heading_info(ast, node_index) ==
  LET idx == At(ast.nodes, node_index).data.a
  IN [level |-> At(ast.extra_data, idx) % 256,
      children_start |-> At(ast.extra_data, idx + 1),
      children_end |-> At(ast.extra_data, idx + 2)]

jsx_element(ast, node_index) ==
  LET idx == At(ast.nodes, node_index).data.a
  IN [name_token |-> At(ast.extra_data, idx),
      attrs_start |-> At(ast.extra_data, idx + 1),
      attrs_end |-> At(ast.extra_data, idx + 2),
      children_start |-> At(ast.extra_data, idx + 3),
      children_end |-> At(ast.extra_data, idx + 4)]

frontmatter_info(ast, node_index) ==
  LET idx == At(ast.nodes, node_index).data.a
  IN [format |-> IF At(ast.extra_data, idx) = 0 THEN FM_YAML ELSE FM_JSON,
      content_start |-> At(ast.extra_data, idx + 1),
      content_end |-> At(ast.extra_data, idx + 2)]

extra_range(ast, index) == <<At(ast.extra_data, index), At(ast.extra_data, index + 1)>>

\* Ast::list_item_info and Ast::table_alignments are called by render.rs and
\* the tests but are not in src/src/ast.rs; they read the records that
\* add_extra_list_item and parse_table write
list_item_info(ast, node_index) ==
  LET idx == At(ast.nodes, node_index).data.a
  IN [checked |-> At(ast.extra_data, idx),
      children_start |-> At(ast.extra_data, idx + 1),
      children_end |-> At(ast.extra_data, idx + 2)]

table_alignments(ast, node_index) ==
  LET idx == At(ast.nodes, node_index).data.a
  IN SubSeq(ast.extra_data, idx + 3, idx + 2 + At(ast.extra_data, idx))

\* Ast::children.  A ListItem is read only when its data is Children, and
\* parse_list_item stores Extra; Table, TableRow and TableCell have no arm.
children(ast, node_idx) ==
  LET node == At(ast.nodes, node_idx)
  IN CASE node.tag \in {"Document", "Paragraph", "Blockquote", "ListUnordered", "ListOrdered",
                        "ListItem", "Strong", "Emphasis", "MdxJsxFragment"} ->
            IF node.data.kind = "Children" THEN extra_slice(ast, node.data.a, node.data.b)
            ELSE <<>>
       [] node.tag = "Heading" ->
            extra_slice(ast, heading_info(ast, node_idx).children_start,
                        heading_info(ast, node_idx).children_end)
       [] node.tag = "MdxJsxElement" ->
            extra_slice(ast, jsx_element(ast, node_idx).children_start,
                        jsx_element(ast, node_idx).children_end)
       [] OTHER -> <<>>

RECURSIVE node_span(_, _)

\* node_span that takes its end from the first child
node_span_first_child(ast, node_index) ==
  LET node == At(ast.nodes, node_index)
      node_children == children(ast, node_index)
      end_token == node.main_token + 1
  IN [start |-> At(ast.token_starts, node.main_token),
      end |-> IF node_children # <<>> THEN node_span(ast, node_children[1]).end
              ELSE IF end_token < Len(ast.token_starts) THEN At(ast.token_starts, end_token)
              ELSE Len(ast.source)]

node_span(ast, node_index) ==
  LET node == At(ast.nodes, node_index)
      node_children == children(ast, node_index)
      end_token == node.main_token + 1
  IN [start |-> At(ast.token_starts, node.main_token),
      end |-> IF node_children # <<>> THEN node_span(ast, Last(node_children)).end
              ELSE IF end_token < Len(ast.token_starts) THEN At(ast.token_starts, end_token)
              ELSE Len(ast.source)]

ast_token_slice(ast, token_index) ==
  Slice(ast.source, At(ast.token_starts, token_index),
        IF token_index + 1 < Len(ast.token_starts) THEN At(ast.token_starts, token_index + 1)
        ELSE Len(ast.source))

node_source(ast, node_index) ==
  LET node == At(ast.nodes, node_index)
      node_children == Call("children", <<ast, node_index>>)
      end_token == IF node_children # <<>> THEN At(ast.nodes, Last(node_children)).main_token + 1
                   ELSE node.main_token + 1
  IN Slice(ast.source, At(ast.token_starts, node.main_token),
           IF end_token < Len(ast.token_starts) THEN At(ast.token_starts, end_token)
           ELSE Len(ast.source))

\* Ast::jsx_attributes: the records of an element, three entries each; the
\* type reads Literal for a stored 0 and Expression for anything else
jsx_attributes(ast, node_index) ==
  LET elem == jsx_element(ast, node_index)
      count == IF elem.attrs_start = elem.attrs_end THEN 0
               ELSE (elem.attrs_end - elem.attrs_start) \div 3
  IN [k \in 1..count |->
        [name_token |-> At(ast.extra_data, elem.attrs_start + 3 * (k - 1)),
         value_token |-> At(ast.extra_data, elem.attrs_start + 3 * (k - 1) + 1),
         value_type |-> IF At(ast.extra_data, elem.attrs_start + 3 * (k - 1) + 2) = 0
                        THEN "Literal" ELSE "Expression"]]

\* the attribute records as render_jsx_attributes matches them: its
\* JsxAttributeType has String, Number, Boolean and Expression, which
\* src/src/ast.rs does not declare; value_type is the stored raw type
jsx_attributes_typed(ast, node_index) ==
  LET elem == jsx_element(ast, node_index)
      count == IF elem.attrs_start = elem.attrs_end THEN 0
               ELSE (elem.attrs_end - elem.attrs_start) \div 3
  IN [k \in 1..count |->
        [name_token |-> At(ast.extra_data, elem.attrs_start + 3 * (k - 1)),
         value_token |-> At(ast.extra_data, elem.attrs_start + 3 * (k - 1) + 1),
         value_type |-> At(ast.extra_data, elem.attrs_start + 3 * (k - 1) + 2)]]

RECURSIVE replace(_, _, _)
replace(s, from, to) ==
  IF Len(s) < Len(from) THEN s
  ELSE IF SubSeq(s, 1, Len(from)) = from THEN to \o replace(SubSeq(s, Len(from) + 1, Len(s)), from, to)
  ELSE <<s[1]>> \o replace(Tail(s), from, to)

ENT_amp == <<AMP, 97, 109, 112, 59>>
ENT_lt == <<AMP, 108, 116, 59>>
ENT_gt == <<AMP, 103, 116, 59>>
ENT_quot == <<AMP, 113, 117, 111, 116, 59>>

escape_jsx_attribute_string(value) ==
  replace(replace(replace(replace(value, <<AMP>>, ENT_amp), <<LT>>, ENT_lt), <<GT>>, ENT_gt),
          <<DQUOTE>>, ENT_quot)

\* the escape loop of decode_jsx_quoted_value
RECURSIVE unescape(_, _)
unescape(s, escaped) ==
  IF s = <<>> THEN (IF escaped THEN <<BACKSLASH>> ELSE <<>>)
  ELSE IF escaped
    THEN (CASE s[1] = 110 -> <<LF>>
            [] s[1] = 114 -> <<13>>
            [] s[1] = 116 -> <<TAB>>
            [] s[1] \in {BACKSLASH, DQUOTE, SQUOTE} -> <<s[1]>>
            [] OTHER -> <<BACKSLASH, s[1]>>) \o unescape(Tail(s), FALSE)
  ELSE IF s[1] = BACKSLASH THEN unescape(Tail(s), TRUE)
  ELSE <<s[1]>> \o unescape(Tail(s), FALSE)

decode_jsx_quoted_value(raw) ==
  LET trimmed == trim(raw)
      inner == IF /\ Len(trimmed) >= 2
                  /\ \/ trimmed[1] = DQUOTE /\ Last(trimmed) = DQUOTE
                     \/ trimmed[1] = SQUOTE /\ Last(trimmed) = SQUOTE
               THEN SubSeq(trimmed, 2, Len(trimmed) - 1)
               ELSE trimmed
  IN replace(replace(replace(replace(unescape(inner, FALSE), ENT_quot, <<DQUOTE>>),
                             ENT_gt, <<GT>>), ENT_lt, <<LT>>), ENT_amp, <<AMP>>)

\* format!("{}", n) for an unsigned integer
RECURSIVE u32_to_string(_)
u32_to_string(n) == IF n < 10 THEN <<48 + n>> ELSE u32_to_string(n \div 10) \o <<48 + (n % 10)>>

RECURSIVE digits_value(_)
digits_value(ds) == IF ds = <<>> THEN 0 ELSE 10 * digits_value(SubSeq(ds, 1, Len(ds) - 1)) + (Last(ds) - 48)

RECURSIVE strip_leading_zeros(_)
strip_leading_zeros(ds) == IF ds # <<>> /\ ds[1] = 48 THEN strip_leading_zeros(Tail(ds)) ELSE ds

RECURSIVE strip_trailing_zeros(_)
strip_trailing_zeros(ds) ==
  IF ds # <<>> /\ Last(ds) = 48 THEN strip_trailing_zeros(SubSeq(ds, 1, Len(ds) - 1)) ELSE ds

zeros(n) == [i \in 1..n |-> 48]

\* raw.parse::<f64>() followed by f64::to_string(), for a raw that parses:
\* the shortest decimal that reads back as the same f64, never in exponent
\* form.  For a literal of at most 15 significant digits whose value is a
\* normal f64, that is the literal's own value with redundant zeros, the
\* exponent and a '+' sign removed; every input of this model is such.
f64_to_string(raw) ==
  LET q == Call("f64_parts", <<raw>>)
      lower == to_ascii_lowercase(SubSeq(raw, q.sign_len + 1, Len(raw)))
      int_digits == SubSeq(raw, q.sign_len + 1, q.int_end)
      frac_digits == IF q.has_dot THEN SubSeq(raw, q.int_end + 2, q.frac_end) ELSE <<>>
      exp_value == IF q.has_exp THEN digits_value(SubSeq(raw, q.exp_start + 1, q.exp_end)) ELSE 0
      exponent == (IF q.exp_negative THEN 0 - exp_value ELSE exp_value) - Len(frac_digits)
      all == strip_leading_zeros(int_digits \o frac_digits)
      mantissa == strip_trailing_zeros(all)
      exp10 == exponent + (Len(all) - Len(mantissa))
      sign == IF q.negative THEN <<MINUS>> ELSE <<>>
  IN IF lower = STR_nan THEN <<78, 97, 78>>
     ELSE IF lower \in {STR_inf, STR_infinity} THEN sign \o STR_inf
     ELSE IF mantissa = <<>> THEN sign \o <<48>>
     ELSE IF exp10 >= 0 THEN sign \o mantissa \o zeros(exp10)
     ELSE IF Len(mantissa) > 0 - exp10
       THEN sign \o SubSeq(mantissa, 1, Len(mantissa) + exp10) \o <<DOT>>
                 \o SubSeq(mantissa, Len(mantissa) + exp10 + 1, Len(mantissa))
     ELSE sign \o <<48, DOT>> \o zeros((0 - exp10) - Len(mantissa)) \o mantissa

extract_token_range_content(ast, range) ==
  IF range[1] >= range[2] THEN <<>>
  ELSE Slice(ast.source, At(ast.token_starts, range[1]),
             IF range[2] < Len(ast.token_starts) THEN At(ast.token_starts, range[2])
             ELSE Len(ast.source))

\* the while loop of extract_code_block_content; acc is <<code_start, code_end>>
RECURSIVE code_content_loop(_, _, _, _)
code_content_loop(ast, i, in_code, acc) ==
  IF i >= Len(ast.token_tags) THEN acc
  ELSE IF At(ast.token_tags, i) = "CodeFenceEnd" THEN acc
  ELSE IF At(ast.token_tags, i) = "Newline" /\ ~in_code THEN code_content_loop(ast, i + 1, TRUE, acc)
  ELSE IF in_code
    THEN code_content_loop(ast, i + 1, in_code,
           <<Min(acc[1], At(ast.token_starts, i)),
             Max(acc[2], IF i + 1 < Len(ast.token_starts) THEN At(ast.token_starts, i + 1)
                         ELSE Len(ast.source))>>)
  ELSE code_content_loop(ast, i + 1, in_code, acc)

extract_code_block_content(ast, fence_token) ==
  LET acc == code_content_loop(ast, fence_token, FALSE, <<U32_MAX, 0>>)
  IN IF acc[1] < acc[2] THEN Slice(ast.source, acc[1], acc[2]) ELSE <<>>

RenderContext_default == [in_list |-> FALSE, list_index |-> 0, indent_level |-> 0, in_jsx |-> FALSE]

write_indent(level) == [i \in 1..(2 * level) |-> SPACE]

can_render_jsx_inline(ast, node_children) ==
  /\ Len(node_children) = 1
  /\ At(ast.nodes, node_children[1]).tag \in {"Text", "MdxTextExpression"}

can_render_all_jsx_children_inline(ast, node_children) ==
  \A i \in 1..Len(node_children) :
    At(ast.nodes, node_children[i]).tag \in
      {"Text", "Strong", "Emphasis", "CodeInline", "Link", "Image", "MdxTextExpression", "HardBreak"}

is_content_block(tag) ==
  tag \in {"MdxTextExpression", "MdxFlowExpression", "Paragraph", "Heading", "CodeBlock",
           "Blockquote", "ListUnordered", "ListOrdered", "Table"}

\* a Paragraph with no child, or whose only child is a Text of white space
is_blank_paragraph(ast, node_idx) ==
  LET para_children == Call("children", <<ast, node_idx>>)
  IN \/ para_children = <<>>
     \/ /\ Len(para_children) = 1
        /\ At(ast.nodes, para_children[1]).tag = "Text"
        /\ trim(ast_token_slice(ast, At(ast.nodes, para_children[1]).main_token)) = <<>>

closed_with_newline(content) ==
  content \o (IF content # <<>> /\ Last(content) # LF THEN <<LF>> ELSE <<>>)

render_jsx_attribute(ast, attr) ==
  LET has_value == attr.value_token # U32_MAX
      raw == IF has_value THEN ast_token_slice(ast, attr.value_token) ELSE <<>>
      value == CASE attr.value_type = JSX_BOOLEAN ->
                      IF has_value
                      THEN <<EQUALS, LBRACE>> \o (IF trim(raw) = STR_true THEN STR_true ELSE STR_false)
                           \o <<RBRACE>>
                      ELSE <<>>
                 [] attr.value_type = JSX_EXPRESSION -> <<EQUALS, LBRACE>> \o trim(raw) \o <<RBRACE>>
                 [] attr.value_type = JSX_NUMBER ->
                      <<EQUALS>> \o
                      (IF ~has_value THEN <<48>>
                       ELSE IF Call("parse_f64_is_ok", <<trim(raw)>>) THEN Call("f64_to_string", <<trim(raw)>>)
                       ELSE <<DQUOTE>> \o Call("escape_jsx_attribute_string", <<Call("decode_jsx_quoted_value", <<trim(raw)>>)>>)
                            \o <<DQUOTE>>)
                 [] OTHER ->
                      <<EQUALS, DQUOTE>>
                      \o Call("escape_jsx_attribute_string", <<IF has_value THEN Call("decode_jsx_quoted_value", <<raw>>)
                                                     ELSE <<>>>>)
                      \o <<DQUOTE>>
  IN <<SPACE>> \o trim(ast_token_slice(ast, attr.name_token)) \o value

render_attrs_from(ast, attrs, i) ==
  IF i > Len(attrs) THEN <<>>
  ELSE Call("render_jsx_attribute", <<ast, attrs[i]>>) \o Call("render_attrs_from", <<ast, attrs, i + 1>>)

render_jsx_attributes(ast, node_idx) == Call("render_attrs_from", <<ast, jsx_attributes_typed(ast, node_idx), 1>>)

\* `for &child_idx in children { render_node(ast, child_idx, output, ctx) }`
render_nodes(ast, list, ctx) ==
  IF list = <<>> THEN <<>>
  ELSE Call("render_node", <<ast, list[1], ctx>>) \o Call("render_nodes", <<ast, Tail(list), ctx>>)

\* the loops of ListUnordered (ctx.list_index = 0: every item gets 0) and of
\* ListOrdered (ctx.list_index = 1: item i gets i + 1); i counts from 0
render_list_items(ast, list, i, ctx) ==
  IF i >= Len(list) THEN <<>>
  ELSE Call("render_node", <<ast, At(list, i),
                   [in_list |-> TRUE, list_index |-> ctx.list_index * (i + 1),
                    indent_level |-> ctx.indent_level, in_jsx |-> ctx.in_jsx]>>)
       \o Call("render_list_items", <<ast, list, i + 1, ctx>>)

\* the children loop of ListItem: a Paragraph child is rendered flat
render_item_children(ast, list, ctx) ==
  IF list = <<>> THEN <<>>
  ELSE (IF At(ast.nodes, list[1]).tag = "Paragraph"
        THEN Call("render_nodes", <<ast, Call("children", <<ast, list[1]>>), ctx>>)
        ELSE Call("render_node", <<ast, list[1], ctx>>))
       \o Call("render_item_children", <<ast, Tail(list), ctx>>)

\* the children loop of Blockquote
render_quoted(ast, list, ctx) ==
  IF list = <<>> THEN <<>>
  ELSE <<GT, SPACE>> \o Call("render_node", <<ast, list[1], ctx>>) \o Call("render_quoted", <<ast, Tail(list), ctx>>)

\* the block-layout children loop of MdxJsxElement; i counts from 0
render_jsx_block(ast, list, i, prev_was_content_block, ctx) ==
  IF i >= Len(list) THEN <<>>
  ELSE LET child == At(ast.nodes, At(list, i))
           is_content == is_content_block(child.tag)
           next_is_hard_break == i + 1 < Len(list) /\ At(ast.nodes, At(list, i + 1)).tag = "HardBreak"
       IN (IF prev_was_content_block /\ is_content THEN <<LF>> ELSE <<>>)
          \o Call("render_node", <<ast, At(list, i), [ctx EXCEPT !.indent_level = @ + 1, !.in_jsx = TRUE]>>)
          \o (IF child.tag # "HardBreak" /\ ~next_is_hard_break THEN <<LF>> ELSE <<>>)
          \o Call("render_jsx_block", <<ast, list, i + 1, is_content, ctx>>)

render_fragment_children(ast, list, ctx) ==
  IF list = <<>> THEN <<>>
  ELSE Call("render_node", <<ast, list[1], [ctx EXCEPT !.indent_level = @ + 1, !.in_jsx = TRUE]>>) \o <<LF>>
       \o Call("render_fragment_children", <<ast, Tail(list), ctx>>)

render_table_cells(ast, cells, ctx) ==
  IF cells = <<>> THEN <<>>
  ELSE <<SPACE>> \o Call("render_nodes", <<ast, Call("children", <<ast, cells[1]>>), ctx>>) \o <<SPACE, 124>>
       \o Call("render_table_cells", <<ast, Tail(cells), ctx>>)

render_table_row(ast, row_idx, ctx) ==
  <<124>> \o Call("render_table_cells", <<ast, Call("children", <<ast, row_idx>>), ctx>>) \o <<LF>>

render_table_rows(ast, rows, ctx) ==
  IF rows = <<>> THEN <<>>
  ELSE Call("render_table_row", <<ast, rows[1], ctx>>) \o Call("render_table_rows", <<ast, Tail(rows), ctx>>)

RECURSIVE render_alignments(_)
render_alignments(alignments) ==
  IF alignments = <<>> THEN <<>>
  ELSE <<SPACE>>
       \o (CASE alignments[1] = ALIGN_LEFT -> <<COLON, MINUS, MINUS, MINUS>>
             [] alignments[1] = ALIGN_CENTER -> <<COLON, MINUS, MINUS, MINUS, COLON>>
             [] alignments[1] = ALIGN_RIGHT -> <<MINUS, MINUS, MINUS, COLON>>
             [] OTHER -> <<MINUS, MINUS, MINUS>>)
       \o <<SPACE, 124>> \o render_alignments(Tail(alignments))

render_link(ast, node, ctx, opener) ==
  IF node.data.kind # "Extra" THEN <<>>
  ELSE opener
       \o (IF At(ast.extra_data, node.data.a) # U32_MAX
           THEN Call("render_node", <<ast, At(ast.extra_data, node.data.a), ctx>>) ELSE <<>>)
       \o <<RBRACKET, LPAREN>> \o ast_token_slice(ast, At(ast.extra_data, node.data.a + 1))
       \o <<RPAREN>>

render_expression(ast, node) ==
  <<LBRACE>>
  \o (IF node.data.kind = "Extra"
      THEN trim(extract_token_range_content(ast, extra_range(ast, node.data.a))) ELSE <<>>)
  \o <<RBRACE>>

render_code_block(ast, node) ==
  LET fence_token == node.main_token
      lang == IF /\ fence_token + 1 < Len(ast.token_tags)
                 /\ At(ast.token_tags, fence_token + 1) = "Text"
              THEN trim(ast_token_slice(ast, fence_token + 1)) ELSE <<>>
  IN FENCE \o lang \o <<LF>> \o closed_with_newline(Call("extract_code_block_content", <<ast, fence_token>>))
     \o FENCE \o <<LF>>

render_frontmatter(ast, node_idx) ==
  LET info == frontmatter_info(ast, node_idx)
      content == extract_token_range_content(ast, <<info.content_start, info.content_end>>)
  IN IF info.format = FM_YAML
     THEN <<MINUS, MINUS, MINUS, LF>> \o closed_with_newline(content) \o <<MINUS, MINUS, MINUS, LF, LF>>
     ELSE FENCE \o STR_hnmd \o <<LF>> \o closed_with_newline(content) \o FENCE \o <<LF, LF>>

render_jsx_element(ast, node_idx, ctx) ==
  LET elem == jsx_element(ast, node_idx)
      name == trim(ast_token_slice(ast, elem.name_token))
      node_children == extra_slice(ast, elem.children_start, elem.children_end)
      render_inline == \/ can_render_jsx_inline(ast, node_children)
                       \/ can_render_all_jsx_children_inline(ast, node_children)
  IN write_indent(ctx.indent_level) \o <<LT>> \o name \o Call("render_jsx_attributes", <<ast, node_idx>>) \o <<GT>>
     \o (IF render_inline
         THEN Call("render_nodes", <<ast, node_children, [ctx EXCEPT !.indent_level = @ + 1, !.in_jsx = TRUE]>>)
         ELSE <<LF>> \o Call("render_jsx_block", <<ast, node_children, 0, FALSE, ctx>>)
              \o write_indent(ctx.indent_level))
     \o <<LT, SLASH>> \o name \o <<GT>>
     \o (IF ctx.in_jsx THEN <<>> ELSE <<LF>>)

render_list_item(ast, node_idx, ctx) ==
  LET info == list_item_info(ast, node_idx)
  IN write_indent(ctx.indent_level)
     \o (IF ctx.list_index = 0 THEN <<MINUS, SPACE>>
         ELSE u32_to_string(ctx.list_index) \o <<DOT, SPACE>>)
     \o (CASE info.checked = 2 -> <<LBRACKET, 120, RBRACKET, SPACE>>
           [] info.checked = 1 -> <<LBRACKET, SPACE, RBRACKET, SPACE>>
           [] OTHER -> <<>>)
     \o Call("render_item_children", <<ast, Call("children", <<ast, node_idx>>), ctx>>) \o <<LF>>

render_node(ast, node_idx, ctx) ==
  LET node == At(ast.nodes, node_idx)
      tag == node.tag
  IN CASE tag = "Document" -> Call("render_nodes", <<ast, Call("children", <<ast, node_idx>>), ctx>>)
       [] tag = "Frontmatter" -> Call("render_frontmatter", <<ast, node_idx>>)
       [] tag = "Heading" ->
            [i \in 1..heading_info(ast, node_idx).level |-> HASH] \o <<SPACE>>
            \o Call("render_nodes", <<ast, Call("children", <<ast, node_idx>>), ctx>>) \o <<LF>>
       [] tag = "Paragraph" ->
            IF Call("is_blank_paragraph", <<ast, node_idx>>) THEN <<>>
            ELSE Call("render_nodes", <<ast, Call("children", <<ast, node_idx>>), ctx>>)
                 \o (IF ctx.in_jsx THEN <<>> ELSE <<LF>>)
       [] tag = "Text" -> ast_token_slice(ast, node.main_token)
       [] tag = "Strong" ->
            <<STAR, STAR>> \o Call("render_nodes", <<ast, Call("children", <<ast, node_idx>>), ctx>>) \o <<STAR, STAR>>
       [] tag = "Emphasis" ->
            <<STAR>> \o Call("render_nodes", <<ast, Call("children", <<ast, node_idx>>), ctx>>) \o <<STAR>>
       [] tag = "CodeInline" ->
            <<BACKTICK>>
            \o (IF node.data.kind = "Token" THEN ast_token_slice(ast, node.data.a) ELSE <<>>)
            \o <<BACKTICK>>
       [] tag = "CodeBlock" -> Call("render_code_block", <<ast, node>>)
       [] tag = "Blockquote" -> Call("render_quoted", <<ast, Call("children", <<ast, node_idx>>), ctx>>) \o <<LF>>
       [] tag = "ListUnordered" ->
            Call("render_list_items", <<ast, Call("children", <<ast, node_idx>>), 0, [ctx EXCEPT !.list_index = 0]>>)
       [] tag = "ListOrdered" ->
            Call("render_list_items", <<ast, Call("children", <<ast, node_idx>>), 0, [ctx EXCEPT !.list_index = 1]>>)
       [] tag = "ListItem" -> Call("render_list_item", <<ast, node_idx, ctx>>)
       [] tag = "Hr" -> <<MINUS, MINUS, MINUS, LF>>
       [] tag = "HardBreak" -> <<SPACE, SPACE, LF>>
       [] tag = "Link" -> Call("render_link", <<ast, node, ctx, <<LBRACKET>>>>)
       [] tag = "Image" -> Call("render_link", <<ast, node, ctx, <<BANG, LBRACKET>>>>)
       [] tag = "MdxTextExpression" -> render_expression(ast, node)
       [] tag = "MdxFlowExpression" -> render_expression(ast, node) \o <<LF>>
       [] tag = "MdxJsxElement" -> Call("render_jsx_element", <<ast, node_idx, ctx>>)
       [] tag = "MdxJsxSelfClosing" ->
            write_indent(ctx.indent_level) \o <<LT>>
            \o trim(ast_token_slice(ast, jsx_element(ast, node_idx).name_token))
            \o Call("render_jsx_attributes", <<ast, node_idx>>) \o <<SPACE, SLASH, GT>>
            \o (IF ctx.in_jsx THEN <<>> ELSE <<LF>>)
       [] tag = "Table" ->
            LET rows == Call("children", <<ast, node_idx>>)
            IN IF rows = <<>> THEN <<>>
               ELSE Call("render_table_row", <<ast, rows[1], ctx>>)
                    \o <<124>> \o render_alignments(table_alignments(ast, node_idx)) \o <<LF>>
                    \o Call("render_table_rows", <<ast, Tail(rows), ctx>>)
       [] tag \in {"TableRow", "TableCell"} -> <<>>
       [] tag = "MdxJsxFragment" ->
            write_indent(ctx.indent_level) \o <<LT, GT, LF>>
            \o Call("render_fragment_children", <<ast, Call("children", <<ast, node_idx>>), ctx>>)
            \o write_indent(ctx.indent_level) \o <<LT, SLASH, GT>>
            \o (IF ctx.in_jsx THEN <<>> ELSE <<LF>>)
       [] OTHER -> Call("node_source", <<ast, node_idx>>)

\* the loop of render over the Document's children
render_document(ast, list, last_was_content) ==
  IF list = <<>> THEN <<>>
  ELSE LET child_node == At(ast.nodes, list[1])
       IN IF child_node.tag = "Paragraph" /\ Call("is_blank_paragraph", <<ast, list[1]>>)
          THEN Call("render_document", <<ast, Tail(list), last_was_content>>)
          ELSE (IF last_was_content THEN <<LF>> ELSE <<>>)
               \o Call("render_node", <<ast, list[1], RenderContext_default>>)
               \o Call("render_document", <<ast, Tail(list), child_node.tag # "Frontmatter">>)

\* the index of the first Document node, or U32_MAX
doc_idx(ast) ==
  LET found == {i \in 0..(Len(ast.nodes) - 1) : At(ast.nodes, i).tag = "Document"}
  IN IF found = {} THEN U32_MAX ELSE CHOOSE i \in found : \A j \in found : i <= j

render(ast) ==
  IF doc_idx(ast) = U32_MAX THEN <<>>
  ELSE Call("render_document", <<ast, Call("children", <<ast, doc_idx(ast)>>), FALSE>>)

(***************************************************************************)
(* parse_document, cut at the points where the state machine below stops.  *)
(***************************************************************************)
\* parse_document up to its top-level loop: the frontmatter checks
document_frontmatter(ps) ==
  LET fm_start == eat_token(ps, "FrontmatterStart")
      yaml == Call("parse_yaml_frontmatter", <<fm_start.ps, fm_start.val>>)
      json == Call("parse_json_frontmatter", <<ps>>)
  IN IF fm_start.ok
     THEN (IF yaml.ok THEN push_scratch(yaml.ps, yaml.val) ELSE yaml.ps)
     ELSE IF is_json_frontmatter(ps)
     THEN (IF json.ok THEN push_scratch(json.ps, json.val) ELSE json.ps)
     ELSE ps

\* `while current_tag() == BlankLine || current_tag() == Newline { token_index += 1 }`
RECURSIVE skip_blank(_)
skip_blank(ps) == IF current_tag(ps) \in {"BlankLine", "Newline"} THEN skip_blank(advance(ps)) ELSE ps

\* document_iteration without the `break` of the Err arm
document_iteration_no_break(ps) ==
  LET p1 == skip_blank(ps)
      before == p1.token_index
      r == Call("parse_block", <<p1>>)
  IN IF current_tag(p1) = "Eof"
     THEN [ps |-> p1, called |-> FALSE, stop |-> TRUE, ok |-> TRUE, before |-> before]
     ELSE [ps |-> progress_guard(IF r.ok THEN push_scratch(r.ps, r.val) ELSE r.ps, before),
           called |-> TRUE, stop |-> FALSE, ok |-> r.ok, before |-> before]

\* one iteration of the top-level loop, entered with current_tag() # Eof;
\* called is whether parse_block ran, stop is whether the loop breaks
document_iteration(ps) ==
  LET p1 == skip_blank(ps)
      before == p1.token_index
      r == Call("parse_block", <<p1>>)
  IN IF current_tag(p1) = "Eof"
     THEN [ps |-> p1, called |-> FALSE, stop |-> TRUE, ok |-> TRUE, before |-> before]
     ELSE IF r.ok
     THEN [ps |-> progress_guard(push_scratch(r.ps, r.val), before),
           called |-> TRUE, stop |-> FALSE, ok |-> TRUE, before |-> before]
     ELSE [ps |-> r.ps, called |-> TRUE, stop |-> TRUE, ok |-> FALSE, before |-> before]

\* document_finish that makes no Document node once an error was recorded
document_finish_unless_failed(ps) ==
  LET span == take_scratch(ps, 0)
  IN IF ps.errors # <<>> THEN ps
     ELSE add_node(span.ps, Node("Document", 0, DataChildren(span.val))).ps

\* parse_document after its loop: the Document node over what is on scratch
document_finish(ps) ==
  LET span == take_scratch(ps, 0)
  IN add_node(span.ps, Node("Document", 0, DataChildren(span.val))).ps

document_loop(ps) ==
  IF current_tag(ps) = "Eof" THEN ps
  ELSE LET it == Call("document_iteration", <<ps>>)
       IN IF it.stop THEN it.ps ELSE Call("document_loop", <<it.ps>>)

parse_document(ps) == document_finish(Call("document_loop", <<Call("document_frontmatter", <<ps>>)>>))

\* parse(source) for a source whose tokenization ends
parse(src) == Ast_of(Call("parse_document", <<Parser_new(src, Call("tokenize", <<src>>).tokens)>>))

\* The method named fn, applied to args.  The methods call one another
\* through Call, so that one RECURSIVE declaration serves their mutual
\* recursion.
Call(fn, args) ==
  CASE fn = "text_scan" -> text_scan(args[1], args[2], args[3])
    [] fn = "text" -> text(args[1], args[2], args[3])
    [] fn = "next_jsx_dispatch" -> next_jsx_dispatch(args[1], args[2])
    [] fn = "next_jsx" -> next_jsx(args[1], args[2])
    [] fn = "next_expression" -> next_expression(args[1], args[2])
    [] fn = "next_code_block" -> next_code_block(args[1], args[2])
    [] fn = "next_markdown_inline" -> next_markdown_inline(args[1], args[2], args[3])
    [] fn = "hr_or_frontmatter" -> hr_or_frontmatter(args[1], args[2], args[3], args[4])
    [] fn = "next_markdown_sol" -> next_markdown_sol(args[1], args[2], args[3])
    [] fn = "next_markdown" -> next_markdown(args[1], args[2])
    [] fn = "next" -> next(args[1], args[2])
    [] fn = "tokenize_from" -> tokenize_from(args[1], args[2], args[3])
    [] fn = "tokenize" -> tokenize(args[1])
    [] fn = "add_extra_heading" -> add_extra_heading(args[1], args[2], args[3])
    [] fn = "add_extra_list_item" -> add_extra_list_item(args[1], args[2], args[3])
    [] fn = "add_extra_jsx_element" -> add_extra_jsx_element(args[1], args[2], args[3], args[4])
    [] fn = "f64_parts" -> f64_parts(args[1])
    [] fn = "is_f64_decimal" -> is_f64_decimal(args[1])
    [] fn = "parse_f64_is_ok" -> parse_f64_is_ok(args[1])
    [] fn = "infer_unquoted_jsx_value_type" -> infer_unquoted_jsx_value_type(args[1])
    [] fn = "parse_yaml_frontmatter" -> parse_yaml_frontmatter(args[1], args[2])
    [] fn = "parse_json_frontmatter" -> parse_json_frontmatter(args[1])
    [] fn = "parse_code_inline" -> parse_code_inline(args[1])
    [] fn = "parse_link_as" -> parse_link_as(args[1], args[2])
    [] fn = "parse_link" -> parse_link(args[1])
    [] fn = "parse_image" -> parse_image(args[1])
    [] fn = "parse_code_block" -> parse_code_block(args[1])
    [] fn = "parse_text_expression" -> parse_text_expression(args[1])
    [] fn = "parse_jsx_attribute_value" -> parse_jsx_attribute_value(args[1])
    [] fn = "parse_jsx_closing_tag" -> parse_jsx_closing_tag(args[1])
    [] fn = "jsx_attributes_loop" -> jsx_attributes_loop(args[1])
    [] fn = "inline_content_loop" -> inline_content_loop(args[1], args[2])
    [] fn = "parse_inline_content" -> parse_inline_content(args[1], args[2])
    [] fn = "finish_children_node" -> finish_children_node(args[1], args[2], args[3], args[4], args[5])
    [] fn = "parse_paragraph" -> parse_paragraph(args[1])
    [] fn = "parse_strong" -> parse_strong(args[1])
    [] fn = "parse_emphasis" -> parse_emphasis(args[1])
    [] fn = "parse_blockquote" -> parse_blockquote(args[1])
    [] fn = "parse_heading" -> parse_heading(args[1])
    [] fn = "parse_list_item" -> parse_list_item(args[1])
    [] fn = "list_items_loop" -> list_items_loop(args[1], args[2])
    [] fn = "parse_list" -> parse_list(args[1])
    [] fn = "parse_inline" -> parse_inline(args[1])
    [] fn = "parse_block" -> parse_block(args[1])
    [] fn = "jsx_children_loop" -> jsx_children_loop(args[1])
    [] fn = "parse_jsx_element" -> parse_jsx_element(args[1])
    [] fn = "jsx_fragment_loop" -> jsx_fragment_loop(args[1])
    [] fn = "parse_jsx_fragment" -> parse_jsx_fragment(args[1])
    [] fn = "table_cell_loop" -> table_cell_loop(args[1])
    [] fn = "parse_table_cell" -> parse_table_cell(args[1])
    [] fn = "table_row_loop" -> table_row_loop(args[1])
    [] fn = "parse_table_row" -> parse_table_row(args[1])
    [] fn = "table_separator_loop" -> table_separator_loop(args[1], args[2])
    [] fn = "table_body_loop" -> table_body_loop(args[1])
    [] fn = "parse_table" -> parse_table(args[1])
    [] fn = "children" -> children(args[1], args[2])
    [] fn = "node_source" -> node_source(args[1], args[2])
    [] fn = "escape_jsx_attribute_string" -> escape_jsx_attribute_string(args[1])
    [] fn = "decode_jsx_quoted_value" -> decode_jsx_quoted_value(args[1])
    [] fn = "f64_to_string" -> f64_to_string(args[1])
    [] fn = "extract_code_block_content" -> extract_code_block_content(args[1], args[2])
    [] fn = "is_blank_paragraph" -> is_blank_paragraph(args[1], args[2])
    [] fn = "render_jsx_attribute" -> render_jsx_attribute(args[1], args[2])
    [] fn = "render_attrs_from" -> render_attrs_from(args[1], args[2], args[3])
    [] fn = "render_jsx_attributes" -> render_jsx_attributes(args[1], args[2])
    [] fn = "render_nodes" -> render_nodes(args[1], args[2], args[3])
    [] fn = "render_list_items" -> render_list_items(args[1], args[2], args[3], args[4])
    [] fn = "render_item_children" -> render_item_children(args[1], args[2], args[3])
    [] fn = "render_quoted" -> render_quoted(args[1], args[2], args[3])
    [] fn = "render_jsx_block" -> render_jsx_block(args[1], args[2], args[3], args[4], args[5])
    [] fn = "render_fragment_children" -> render_fragment_children(args[1], args[2], args[3])
    [] fn = "render_table_cells" -> render_table_cells(args[1], args[2], args[3])
    [] fn = "render_table_row" -> render_table_row(args[1], args[2], args[3])
    [] fn = "render_table_rows" -> render_table_rows(args[1], args[2], args[3])
    [] fn = "render_link" -> render_link(args[1], args[2], args[3], args[4])
    [] fn = "render_code_block" -> render_code_block(args[1], args[2])
    [] fn = "render_frontmatter" -> render_frontmatter(args[1], args[2])
    [] fn = "render_jsx_element" -> render_jsx_element(args[1], args[2], args[3])
    [] fn = "render_list_item" -> render_list_item(args[1], args[2], args[3])
    [] fn = "render_node" -> render_node(args[1], args[2], args[3])
    [] fn = "render_document" -> render_document(args[1], args[2], args[3])
    [] fn = "render" -> render(args[1])
    [] fn = "document_frontmatter" -> document_frontmatter(args[1])
    [] fn = "document_iteration" -> document_iteration(args[1])
    [] fn = "document_loop" -> document_loop(args[1])
    [] fn = "parse_document" -> parse_document(args[1])
    [] fn = "parse" -> parse(args[1])

(***************************************************************************)
(* The state machine: parse_with_options followed by render.               *)
(*   pc = "tokenize"     the tokenization loop, one Tokenizer::next a step  *)
(*   pc = "frontmatter"  parse_document before its top-level loop          *)
(*   pc = "blocks"       the top-level loop, one iteration a step          *)
(*   pc = "finish"       parse_document after the loop                     *)
(*   pc = "done"         parse has returned the Ast                        *)
(*   pc = "rendered"     render(&ast) has returned output                  *)
(* calls logs the top-level parse_block calls.                             *)
(***************************************************************************)
MaxFrags == 3
MaxTokens == 18
MaxCols == 2

F_lt == <<LT>>
F_open_a == <<LT, 97>>
F_open_a_full == <<LT, 97, GT>>
F_open_b_full == <<LT, 98, GT>>
F_close_a == <<LT, SLASH, 97, GT>>
F_close_b == <<LT, SLASH, 98, GT>>
F_close_a_spaced == <<LT, SLASH, 97, SPACE, GT>>
F_quote_backslash == <<DQUOTE, BACKSLASH>>
F_lbrace == <<LBRACE>>
F_rbrace == <<RBRACE>>
F_a == <<97>>
F_x == <<120>>
F_nl == <<LF>>
F_dashes == <<MINUS, MINUS, MINUS, LF>>
F_hnmd == FENCE \o STR_hnmd \o <<LF>>
F_quote == <<GT, SPACE>>
F_star == <<STAR>>
F_em == <<STAR, 98, STAR>>
F_heading == <<HASH, SPACE>>
F_item == <<MINUS, SPACE>>
F_keycap_star == <<STAR>> \o VS16 \o KEYCAP
F_keycap_hash == <<HASH>> \o VS16 \o KEYCAP
F_keycap_one == <<49>> \o KEYCAP
F_item_star == <<STAR, SPACE>>
F_item_one == <<49, DOT, SPACE>>
F_box_unchecked == <<LBRACKET, SPACE, RBRACKET>>
F_box_x == <<LBRACKET, 120, RBRACKET>>
F_box_X == <<LBRACKET, 88, RBRACKET>>
F_box_y == <<LBRACKET, 121, RBRACKET>>
F_box_empty == <<LBRACKET, RBRACKET>>
F_space == <<SPACE>>
F_open_a_attr == <<LT, 97, SPACE, 98>>
F_val_string == <<EQUALS, DQUOTE, 120, DQUOTE>>
F_val_expr == <<EQUALS, LBRACE, 120, RBRACE>>
F_val_true == <<EQUALS>> \o STR_true
F_val_false == <<EQUALS>> \o STR_false
F_val_four == <<EQUALS, 52>>
F_val_negative == <<EQUALS, MINUS, 49, DOT, 53>>
F_val_word == <<EQUALS, 99>>
F_attr_bare == <<SPACE, 100>>
F_self_close == <<SPACE, SLASH, GT>>
F_gt == <<GT>>
F_frag_open == <<LT, GT>>
F_frag_close == <<LT, SLASH, GT>>
F_fence == FENCE \o <<LF>>
F_stars == <<STAR, STAR, STAR, LF>>
F_line_dash == <<MINUS, SPACE, 97, LF>>
F_line_star == <<STAR, SPACE, 97, LF>>
F_line_one == <<49, DOT, SPACE, 97, LF>>
F_line_plain == <<98, LF>>
F_two_spaces == <<SPACE, SPACE>>
F_backslash == <<BACKSLASH>>
F_line_two_spaces == <<97, SPACE, SPACE, LF>>
F_line_backslash == <<97, BACKSLASH, LF>>
F_cell == <<PIPE, 97>>
F_row == <<PIPE, 97, PIPE, LF>>
F_row_end == <<PIPE, LF>>
F_sep_none == <<PIPE, MINUS>>
F_sep_left == <<PIPE, COLON, MINUS>>
F_sep_center == <<PIPE, COLON, MINUS, COLON>>
F_close_start == <<LT, SLASH>>
F_backtick == <<BACKTICK>>
F_nul == <<NUL>>
F_e_acute == <<195, 169>>
F_dquote == <<DQUOTE>>
F_star_twice == <<STAR, STAR>>
F_blank_line == <<LF, LF>>
F_lbrace_twice == <<LBRACE, LBRACE>>
F_rbrace_twice == <<RBRACE, RBRACE>>
F_val_empty == <<EQUALS, LBRACE, RBRACE>>
F_val_spaced == <<EQUALS, LBRACE, SPACE, 120, SPACE, RBRACE>>
F_val_nested == <<EQUALS, LBRACE, LBRACE, 120, RBRACE, RBRACE>>
F_val_open == <<EQUALS, LBRACE>>
F_sep_right == <<PIPE, MINUS, COLON>>

\* the concatenations of at most n fragments of alphabet
RECURSIVE Sources(_, _)
Sources(alphabet, n) ==
  IF n = 0 THEN {<<>>}
  ELSE Sources(alphabet, n - 1) \cup {s \o f : s \in Sources(alphabet, n - 1), f \in alphabet}

Alphabet == {F_lt, F_open_a, F_close_a, F_quote_backslash, F_lbrace, F_rbrace, F_a, F_nl, F_dashes,
             F_hnmd, F_quote, F_star, F_em, F_heading, F_item, F_keycap_star, F_keycap_hash,
             F_keycap_one}

JsxAlphabet == {F_open_a_full, F_open_b_full, F_close_a, F_close_b, F_close_a_spaced, F_x, F_nl}

InitWith(sources) ==
  /\ source \in sources
  /\ tz = Tokenizer_new
  /\ tokens = <<>>
  /\ p = Parser_new(source, <<>>)
  /\ pc = "tokenize"
  /\ calls = <<>>
  /\ output = <<>>

Init == InitWith(Sources(Alphabet, MaxFrags))

InitJsx == InitWith(Sources(JsxAlphabet, MaxFrags + 1))

\* list markers, bracket texts that are and are not checkboxes, and followers
CheckboxAlphabet == {F_item, F_item_star, F_item_one, F_box_unchecked, F_box_x, F_box_X, F_box_y,
                     F_box_empty, F_space, F_nl, F_a}

InitCheckbox == InitWith(Sources(CheckboxAlphabet, MaxFrags))

\* one pass of the tokenization loop of parse_with_options; on Eof the
\* Parser is built from the tokens
TokenizeStep ==
  /\ pc = "tokenize"
  /\ Len(tokens) < MaxTokens
  /\ LET r == Call("next", <<source, tz>>)
     IN /\ tz' = r.t
        /\ tokens' = Append(tokens, r.tok)
        /\ pc' = IF r.tok.tag = "Eof" THEN "frontmatter" ELSE "tokenize"
        /\ p' = IF r.tok.tag = "Eof" THEN Parser_new(source, Append(tokens, r.tok)) ELSE p
  /\ UNCHANGED <<source, calls, output>>

ParseFrontmatter ==
  /\ pc = "frontmatter"
  /\ p' = Call("document_frontmatter", <<p>>)
  /\ pc' = "blocks"
  /\ UNCHANGED <<source, tz, tokens, calls, output>>

\* the test of the top-level `while` and, when it passes, one iteration
TopLevelIteration ==
  /\ pc = "blocks"
  /\ LET it == Call("document_iteration", <<p>>)
     IN IF current_tag(p) = "Eof"
        THEN /\ pc' = "finish"
             /\ UNCHANGED <<p, calls>>
        ELSE /\ p' = it.ps
             /\ pc' = IF it.stop THEN "finish" ELSE "blocks"
             /\ calls' = IF it.called
                         THEN Append(calls, [before |-> it.before, ok |-> it.ok,
                                             nodes_before |-> Len(p.nodes),
                                             errors_before |-> Len(p.errors)])
                         ELSE calls
  /\ UNCHANGED <<source, tz, tokens, output>>

FinishDocument ==
  /\ pc = "finish"
  /\ p' = document_finish(p)
  /\ pc' = "done"
  /\ UNCHANGED <<source, tz, tokens, calls, output>>

Render ==
  /\ pc = "done"
  /\ output' = Call("render", <<Ast_of(p)>>)
  /\ pc' = "rendered"
  /\ UNCHANGED <<source, tz, tokens, p, calls>>

Next == TokenizeStep \/ ParseFrontmatter \/ TopLevelIteration \/ FinishDocument \/ Render

Spec == Init /\ [][Next]_vars

SpecJsx == InitJsx /\ [][Next]_vars

SpecCheckbox == InitCheckbox /\ [][Next]_vars

\* an open tag with one attribute name, the kinds of attribute value, a
\* further attribute without `=`, and the ends of a tag
AttrAlphabet == {F_open_a_attr, F_val_string, F_val_expr, F_val_true, F_val_false, F_val_four,
                 F_val_negative, F_val_word, F_attr_bare, F_self_close, F_gt, F_close_a}

InitAttr == InitWith(Sources(AttrAlphabet, MaxFrags))

SpecAttr == InitAttr /\ [][Next]_vars

\* pieces of token sequences: one for every construct whose parser has a loop
T_text == <<"Text">>
T_newline == <<"Newline">>
T_heading == <<"HeadingStart">>
T_item == <<"ListItemUnordered">>
T_pipe == <<"Pipe">>
T_open == <<"JsxTagStart", "JsxIdentifier">>
T_attr == <<"JsxIdentifier", "JsxEqual">>
T_tag_end == <<"JsxTagEnd">>
T_close == <<"JsxTagStart", "JsxCloseTag">>
T_fragment == <<"JsxTagStart", "JsxTagEnd">>
T_expr_start == <<"ExprStart">>
T_expr_end == <<"ExprEnd">>
T_attr_expr == <<"JsxAttrExprStart">>
T_frontmatter == <<"FrontmatterStart">>
T_hr == <<"Hr">>

TokenAlphabet == {T_text, T_newline, T_heading, T_item, T_pipe, T_open, T_attr, T_tag_end, T_close,
                  T_fragment, T_expr_start, T_expr_end, T_attr_expr, T_frontmatter, T_hr}

\* the token sequence of tags, one byte `a` to each token, closed by one Eof
TokensOf(tags) ==
  [i \in 1..(Len(tags) + 1) |->
     IF i <= Len(tags) THEN [tag |-> tags[i], start |-> i - 1, end |-> i]
     ELSE [tag |-> "Eof", start |-> Len(tags), end |-> Len(tags)]]

\* no tokens yet: the parser is handed its token sequence by ReceiveTokens
InitTokens ==
  /\ source = <<>>
  /\ tz = Tokenizer_new
  /\ tokens = <<>>
  /\ p = Parser_new(<<>>, <<>>)
  /\ pc = "receive"
  /\ calls = <<>>
  /\ output = <<>>

\* Parser::new on a token sequence that no tokenizer need have made
ReceiveTokens ==
  /\ pc = "receive"
  /\ \E tags \in Sources(TokenAlphabet, MaxFrags) :
       /\ source' = [i \in 1..Len(tags) |-> 97]
       /\ tokens' = TokensOf(tags)
       /\ p' = Parser_new([i \in 1..Len(tags) |-> 97], TokensOf(tags))
  /\ pc' = "frontmatter"
  /\ UNCHANGED <<tz, calls, output>>

NextTokens == ReceiveTokens \/ ParseFrontmatter \/ TopLevelIteration \/ FinishDocument

SpecTokens == InitTokens /\ [][NextTokens]_vars

\* cells, whole rows, the end of a row and the four kinds of separator cell
TableAlphabet == {F_cell, F_row, F_row_end, F_sep_none, F_sep_left, F_sep_center, F_sep_right}

InitTable == InitWith(Sources(TableAlphabet, MaxFrags + 1))

SpecTable == InitTable /\ [][Next]_vars

\* text, trailing spaces and backslashes, line ends, and whole lines that
\* end in a hard break
BreakAlphabet == {F_a, F_space, F_two_spaces, F_backslash, F_nl, F_line_two_spaces,
                  F_line_backslash}

InitBreak == InitWith(Sources(BreakAlphabet, MaxFrags + 1))

SpecBreak == InitBreak /\ [][Next]_vars

\* whole lines: list items of the three markers, a plain line, an empty line
ListAlphabet == {F_line_dash, F_line_star, F_line_one, F_line_plain, F_nl}

InitList == InitWith(Sources(ListAlphabet, MaxFrags + 1))

SpecList == InitList /\ [][Next]_vars

\* the two openers, their closers, and content
FrontmatterAlphabet == {F_dashes, F_stars, F_hnmd, F_fence, F_a, F_nl}

InitFrontmatter == InitWith(Sources(FrontmatterAlphabet, MaxFrags + 1))

SpecFrontmatter == InitFrontmatter /\ [][Next]_vars

\* an open tag with one attribute name, brace values that are plain, empty,
\* padded and nested, loose braces and text, and the ends of a tag
ExprAttrAlphabet == {F_open_a_attr, F_val_expr, F_val_empty, F_val_spaced, F_val_nested, F_val_open,
                     F_lbrace, F_rbrace, F_x, F_self_close}

InitExprAttr == InitWith(Sources(ExprAttrAlphabet, MaxFrags + 1))

SpecExprAttr == InitExprAttr /\ [][Next]_vars

\* braces, single and doubled, around and beside text, line ends and the
\* bytes that start Markdown and JSX tokens outside braces
ExprAlphabet == {F_lbrace, F_rbrace, F_lbrace_twice, F_rbrace_twice, F_a, F_nl, F_star,
                 F_open_a_full, F_heading}

InitExpr == InitWith(Sources(ExprAlphabet, MaxFrags + 1))

SpecExpr == InitExpr /\ [][Next]_vars

\* what follows the run of `#` of a heading: the space, text, a line end and
\* a further heading
HeadingAlphabet == {F_heading, F_space, F_a, F_nl}

\* a run of `#` at the start of the source, then pieces of HeadingAlphabet
HashRuns == {[i \in 1..n |-> HASH] : n \in {1, 2, 6, 7, U8_MAX, U8_MAX + 1, U8_MAX + 2}}

InitHeading == InitWith({h \o s : h \in HashRuns, s \in Sources(HeadingAlphabet, MaxFrags)})

SpecHeading == InitHeading /\ [][Next]_vars

\* `*` and `**` at line starts and inside lines, with line ends, blank
\* lines and block starts between them
StarAlphabet == {F_star, F_star_twice, F_a, F_nl, F_blank_line, F_heading, F_item_star, F_stars}

InitStar == InitWith(Sources(StarAlphabet, MaxFrags + 1))

SpecStar == InitStar /\ [][Next]_vars

\* a two-byte character and a keycap sequence in Markdown text, inside a
\* JSX tag and inside a JSX string, closed and not
Utf8Alphabet == {F_e_acute, F_keycap_one, F_open_a, F_space, F_dquote, F_gt, F_a, F_nl}

InitUtf8 == InitWith(Sources(Utf8Alphabet, MaxFrags + 1))

SpecUtf8 == InitUtf8 /\ [][Next]_vars

\* the character U+0000 at a line start, inside text, inside a JSX tag and
\* inside braces
NulAlphabet == {F_nul, F_a, F_nl, F_open_a, F_lbrace, F_rbrace, F_gt}

InitNul == InitWith(Sources(NulAlphabet, MaxFrags + 1))

SpecNul == InitNul /\ [][Next]_vars

\* the bytes that enter and leave the tokenizer modes: `<a`, `>`, `/>`,
\* braces, a backtick and a code fence, with text and line ends
ModeAlphabet == {F_open_a, F_gt, F_self_close, F_lbrace, F_rbrace, F_backtick, F_fence, F_a, F_nl}

InitMode == InitWith(Sources(ModeAlphabet, MaxFrags + 1))

SpecMode == InitMode /\ [][Next]_vars

\* closing tags, whole and cut short, at block level and after an opening tag
CloseAlphabet == {F_close_start, F_close_a, F_open_a_full, F_a, F_gt, F_space, F_nl, F_lbrace}

InitClose == InitWith(Sources(CloseAlphabet, MaxFrags))

SpecClose == InitClose /\ [][Next]_vars

\* what a fragment may enclose: text, line ends, a heading, an element
FragmentChildAlphabet == {F_a, F_nl, F_heading, F_open_a_full, F_close_a}

FragmentAlphabet == {F_frag_open, F_frag_close} \cup FragmentChildAlphabet

InitFragment == InitWith(Sources(FragmentAlphabet, MaxFrags + 1))

SpecFragment == InitFragment /\ [][Next]_vars

(***************************************************************************)
(* Parser::warn_at on its own: a Parser whose error list is WarnHeadroom   *)
(* short of MAX_PARSE_ERRORS takes further warnings.                       *)
(***************************************************************************)
WarnTags == {"UnexpectedToken", "MismatchedTags"}

WarnHeadroom == 3

\* the Parser of source after k calls warn_at(UnexpectedToken, 0), k < MAX_PARSE_ERRORS
Warned(k) ==
  LET ps == Parser_new(F_close_a, Call("tokenize", <<F_close_a>>).tokens)
  IN [ps EXCEPT !.errors = [i \in 1..k |-> [tag |-> "UnexpectedToken", token |-> 0,
                                           byte_offset |-> byte_offset_for_token(ps, 0)]]]

InitWarn ==
  /\ source = F_close_a
  /\ tz = Tokenizer_new
  /\ tokens = Call("tokenize", <<source>>).tokens
  /\ p = Warned(MAX_PARSE_ERRORS - WarnHeadroom)
  /\ pc = "warn"
  /\ calls = <<>>
  /\ output = <<>>

\* one call warn_at(tag, token); calls holds the call and the length it met
Warn ==
  /\ pc = "warn"
  /\ \E tag \in WarnTags, token \in 0..1 :
       /\ p' = warn_at(p, tag, token)
       /\ calls' = <<[tag |-> tag, token |-> token, errors_before |-> Len(p.errors)]>>
  /\ UNCHANGED <<source, tz, tokens, pc, output>>

NextWarn == Warn

SpecWarn == InitWarn /\ [][NextWarn]_vars

(***************************************************************************)
(* Properties.                                                             *)
(***************************************************************************)
Returned == pc \in {"done", "rendered"}

NodeIndices == 0..(Len(p.nodes) - 1)

ErrorsTagged(tag) == {i \in 1..Len(p.errors) : p.errors[i].tag = tag}

\* C1: parse terminates: the tokenization loop reaches Eof after finitely
\* many calls of Tokenizer::next.  next is a function of the buffer and the
\* tokenizer's fields, so the loop ends only if every call that returns a
\* token other than Eof changes those fields.
C1_TokenizerProgress == [][(pc = "tokenize" /\ pc' = "tokenize") => tz' # tz]_vars

\* C2: the error list never holds more than MAX_PARSE_ERRORS entries, and a
\* warning raised when it holds that many leaves it unchanged.
C2_ErrorsBounded ==
  /\ [](Len(p.errors) <= MAX_PARSE_ERRORS)
  /\ [][Len(p.errors) >= MAX_PARSE_ERRORS => p'.errors = p.errors]_vars

\* a warning was raised on a full list
C2_Witness ==
  /\ pc = "warn"
  /\ calls # <<>>
  /\ calls[1].errors_before = MAX_PARSE_ERRORS
  /\ Len(p.errors) = MAX_PARSE_ERRORS

\* C3: token_starts of the returned Ast is non-decreasing and its last
\* entry, the start of Eof, is at most source.len().
C3_TokenStartsWithinSource ==
  Returned =>
    /\ \A i \in 1..(Len(p.token_starts) - 1) : p.token_starts[i] <= p.token_starts[i + 1]
    /\ Last(p.token_starts) <= Len(source)

BlockTags == {"Heading", "CodeBlock", "Hr", "Blockquote", "ListUnordered", "ListOrdered", "Table",
              "MdxJsxElement", "MdxJsxSelfClosing", "MdxJsxFragment", "Paragraph"}

LastCallFailed == calls # <<>> /\ ~Last(calls).ok

DocumentChildren == children(Ast_of(p), doc_idx(Ast_of(p)))

\* the nodes that the failed top-level call made for its own block
FailedBlockNodes ==
  {n \in NodeIndices : /\ n >= Last(calls).nodes_before
                       /\ At(p.nodes, n).main_token = Last(calls).before
                       /\ At(p.nodes, n).tag \in BlockTags}

\* C5: a failed top-level parse_block is the last one called; its block is
\* no child of the Document and errors is not empty.  If errors is empty the
\* top-level loop ended at the Eof token.
C5_FailureStopsParse ==
  /\ \A i \in 1..(Len(calls) - 1) : calls[i].ok
  /\ LastCallFailed => pc \in {"finish", "done", "rendered"} /\ p.errors # <<>>
  /\ (LastCallFailed /\ Returned) =>
       \A i \in 1..Len(DocumentChildren) : DocumentChildren[i] \notin FailedBlockNodes
  /\ (Returned /\ p.errors = <<>>) =>
       /\ p.token_index = Len(p.token_tags) - 1
       /\ current_tag(p) = "Eof"

\* a block was parsed, the next one failed with tokens left, and the failed
\* block had made a node
C5_Witness ==
  /\ Returned
  /\ Len(calls) >= 2
  /\ LastCallFailed
  /\ p.token_index < Len(p.token_tags) - 1
  /\ FailedBlockNodes # {}

\* the first close tag, reading the tokens from i with the names of the open
\* elements on stack, that meets an open element of another name
\* ("mismatch"), or meets no open element ("stray"); "none" at Eof
RECURSIVE jsx_scan(_, _)
jsx_scan(i, stack) ==
  LET tag == At(p.token_tags, i)
      name == At(source, At(p.token_starts, i + 1))
  IN IF tag = "Eof" THEN [kind |-> "none", close |-> i, open |-> i]
     ELSE IF tag = "JsxTagStart"
       THEN jsx_scan(i + 1, Append(stack, [name |-> name, open |-> i]))
     ELSE IF tag = "JsxCloseTag"
       THEN IF stack = <<>> THEN [kind |-> "stray", close |-> i, open |-> i]
            ELSE IF Last(stack).name = name
              THEN jsx_scan(i + 1, SubSeq(stack, 1, Len(stack) - 1))
            ELSE [kind |-> "mismatch", close |-> i, open |-> Last(stack).open]
     ELSE jsx_scan(i + 1, stack)

FirstJsxEvent == jsx_scan(0, <<>>)

\* C6: a close tag whose name differs from its element's opening name gives
\* exactly one mismatched_tags error, at the `</` token and that token's
\* offset; the element's parse fails and no MdxJsxElement is made for it.
C6_MismatchedTagsAtCloseTag ==
  Returned =>
    IF FirstJsxEvent.kind = "mismatch"
    THEN /\ Cardinality(ErrorsTagged("MismatchedTags")) = 1
         /\ \A i \in ErrorsTagged("MismatchedTags") :
              /\ p.errors[i].token = FirstJsxEvent.close
              /\ p.errors[i].byte_offset = At(p.token_starts, FirstJsxEvent.close)
              /\ Slice(source, p.errors[i].byte_offset, p.errors[i].byte_offset + 2) = <<LT, SLASH>>
         /\ LastCallFailed
         /\ \A n \in NodeIndices :
              ~(At(p.nodes, n).tag = "MdxJsxElement"
                /\ At(p.nodes, n).main_token = FirstJsxEvent.open)
    ELSE ErrorsTagged("MismatchedTags") = {}

\* an inner element is closed by another name, as in <a><b>x</a>
C6_Witness ==
  /\ Returned
  /\ FirstJsxEvent.kind = "mismatch"
  /\ FirstJsxEvent.open > 0
  /\ ErrorsTagged("MismatchedTags") # {}

\* C7: an unclosed_expression error names the opening `{`: its token is the
\* ExprStart or JsxAttrExprStart token and its byte_offset is where that
\* `{` is.
C7_UnclosedExpressionAtOpener ==
  Returned =>
    \A i \in ErrorsTagged("UnclosedExpression") :
      /\ At(p.token_tags, p.errors[i].token) \in {"ExprStart", "JsxAttrExprStart"}
      /\ p.errors[i].byte_offset = At(p.token_starts, p.errors[i].token)
      /\ At(source, p.errors[i].byte_offset) = LBRACE

\* C8: an unclosed_frontmatter error names the opening marker: its token is
\* the FrontmatterStart or the CodeFenceStart token and its byte_offset is
\* that token's start.
C8_UnclosedFrontmatterAtOpener ==
  Returned =>
    \A i \in ErrorsTagged("UnclosedFrontmatter") :
      /\ At(p.token_tags, p.errors[i].token) \in {"FrontmatterStart", "CodeFenceStart"}
      /\ p.errors[i].byte_offset = At(p.token_starts, p.errors[i].token)

\* C9: render(parse(render(parse(s)))) = render(parse(s)), wherever the
\* second parse returns.
C9_RenderIdempotent ==
  (pc = "rendered" /\ tokenize(output).ok) => render(parse(output)) = output

SourceHas(i, pattern) ==
  i + Len(pattern) <= Len(source) /\ Slice(source, i, i + Len(pattern)) = pattern

\* a keycap sequence starts at byte i: [0-9*#], U+FE0F optional, U+20E3
KeycapAt(i) ==
  /\ At(source, i) \in Digits \cup {STAR, HASH}
  /\ SourceHas(i + 1, KEYCAP) \/ SourceHas(i + 1, VS16 \o KEYCAP)

LineStartAt(i) == IF i = 0 THEN TRUE ELSE At(source, i - 1) = LF

\* token k holds byte i
TokenHolds(k, i) == At(p.token_starts, k) <= i /\ i < At(p.token_starts, k + 1)

\* C10: a keycap sequence at the start of a line, and a `*` keycap anywhere,
\* lies in a Text token.
C10_KeycapIsText ==
  Returned =>
    \A i \in 0..(Len(source) - 1) :
      (KeycapAt(i) /\ (LineStartAt(i) \/ At(source, i) = STAR)) =>
        \A k \in 0..(Len(p.token_tags) - 2) : TokenHolds(k, i) => At(p.token_tags, k) = "Text"

ListItemTokenTags == {"ListItemUnordered", "ListItemOrdered"}

CheckboxTokenTags == {"CheckboxUnchecked", "CheckboxChecked"}

\* byte i of the source, -1 past its end
SourceByte(i) == IF i < Len(source) THEN At(source, i) ELSE -1

\* the end of the list marker that starts at byte s, read off the source:
\* digits `. `, or a run of the marker byte and a space
MarkerEnd(s) ==
  IF At(source, s) \in Digits THEN ScanIn(source, s, Digits) + 2
  ELSE ScanIn(source, s, {At(source, s)}) + 1

\* the bytes at e are `[`, one of ` xX`, `]`, then a space, a newline or the end
CheckboxPatternAt(e) ==
  /\ SourceByte(e) = LBRACKET
  /\ SourceByte(e + 1) \in {SPACE, 120, 88}
  /\ SourceByte(e + 2) = RBRACKET
  /\ SourceByte(e + 3) \in {SPACE, LF, -1}

\* the checked field the parser wrote for ListItem node n (0 none, 1 false, 2 true)
StoredChecked(n) == At(p.extra_data, At(p.nodes, n).data.a)

RecordedChildren(n) ==
  LET idx == At(p.nodes, n).data.a
      tag == At(p.nodes, n).tag
  IN CASE tag \in {"Heading", "ListItem"} ->
            extra_slice(p, At(p.extra_data, idx + 1), At(p.extra_data, idx + 2))
       [] tag = "MdxJsxElement" ->
            extra_slice(p, At(p.extra_data, idx + 3), At(p.extra_data, idx + 4))
       [] tag = "Table" ->
            extra_slice(p, idx + 2 + At(p.extra_data, idx),
                        idx + 2 + At(p.extra_data, idx) + At(p.extra_data, idx + 1))

\* C12: for every Heading, MdxJsxElement, ListItem and Table node of a
\* returned AST, children(node) is the sequence of child indices the parser
\* recorded in the node's extra_data record.
C12_ChildrenAsRecorded ==
  Returned =>
    \A n \in NodeIndices :
      (/\ At(p.nodes, n).tag \in {"Heading", "MdxJsxElement", "ListItem", "Table"}
       /\ At(p.nodes, n).data.kind = "Extra") =>
        children(p, n) = RecordedChildren(n)

\* C13: in a returned AST the span of every child lies within the span of
\* its parent: node_span(p).start <= node_span(c).start and
\* node_span(c).end <= node_span(p).end for every c in children(p).
C13_ChildSpanWithinParent ==
  Returned =>
    \A n \in NodeIndices :
      \A i \in 1..Len(children(p, n)) :
        /\ node_span(p, n).start <= node_span(p, children(p, n)[i]).start
        /\ node_span(p, children(p, n)[i]).end <= node_span(p, n).end

\* a parent with two children, the first of which has a child of its own
\* and ends before its parent does
C13_Witness ==
  /\ Returned
  /\ \E n \in NodeIndices :
       /\ Len(children(p, n)) >= 2
       /\ children(p, children(p, n)[1]) # <<>>
       /\ node_span(p, children(p, n)[1]).end < node_span(p, n).end

JsxTags == {"MdxJsxElement", "MdxJsxSelfClosing"}

\* the bytes of token k
TokenText(k) ==
  Slice(source, At(p.token_starts, k),
        IF k + 1 < Len(p.token_starts) THEN At(p.token_starts, k + 1) ELSE Len(source))

\* the type the claim gives the attribute whose name is token k, read off
\* the source: no `=`, a quote, a brace, true/false, a number, anything else
ClaimedAttrType(k) ==
  IF At(p.token_tags, k + 1) # "JsxEqual" THEN JSX_BOOLEAN
  ELSE LET first == At(source, At(p.token_starts, k + 2))
           word == trim(TokenText(k + 2))
       IN IF first \in {DQUOTE, SQUOTE} THEN JSX_STRING
          ELSE IF first = LBRACE THEN JSX_EXPRESSION
          ELSE IF word \in {STR_true, STR_false} THEN JSX_BOOLEAN
          ELSE IF word \in {<<52>>, <<MINUS, 49, DOT, 53>>} THEN JSX_NUMBER
          ELSE JSX_STRING

\* the raw type in the i-th attribute record of JSX node n
StoredAttrType(n, i) == At(p.extra_data, jsx_element(p, n).attrs_start + 3 * (i - 1) + 2)

\* C14: for every attribute of a JSX open or self-closing tag the type that
\* parse stores, and the type jsx_attributes reads back, is string for a
\* quoted value, expression for `{...}`, boolean for true or false, number
\* for another unquoted value that parses as a number, string for any other
\* unquoted value, and boolean with no value token for an attribute
\* without `=`.
C14_AttributeValueTypes ==
  Returned =>
    \A n \in NodeIndices :
      At(p.nodes, n).tag \in JsxTags =>
        \A i \in 1..Len(jsx_attributes(p, n)) :
          LET attr == jsx_attributes(p, n)[i]
              claimed == ClaimedAttrType(attr.name_token)
          IN /\ StoredAttrType(n, i) = claimed
             /\ attr.value_type = CASE claimed = JSX_STRING -> "Literal"
                                     [] claimed = JSX_NUMBER -> "Number"
                                     [] claimed = JSX_BOOLEAN -> "Boolean"
                                     [] claimed = JSX_EXPRESSION -> "Expression"
             /\ At(p.token_tags, attr.name_token + 1) # "JsxEqual" => attr.value_token = U32_MAX

\* a row of n cells `|a`, closed by `|` and a newline
RECURSIVE TableRowText(_)
TableRowText(n) == IF n = 0 THEN F_row_end ELSE F_cell \o TableRowText(n - 1)

SeparatorCell(a) ==
  CASE a = ALIGN_NONE -> F_sep_none
    [] a = ALIGN_LEFT -> F_sep_left
    [] a = ALIGN_CENTER -> F_sep_center
    [] a = ALIGN_RIGHT -> F_sep_right

\* the separator line with one cell for each entry of aligns
RECURSIVE SeparatorText(_)
SeparatorText(aligns) ==
  IF aligns = <<>> THEN F_row_end ELSE SeparatorCell(Head(aligns)) \o SeparatorText(Tail(aligns))

\* body lines, the i-th with cells[i] cells
RECURSIVE BodyText(_)
BodyText(cells) == IF cells = <<>> THEN <<>> ELSE TableRowText(Head(cells)) \o BodyText(Tail(cells))

\* a header of h cells, a separator line and body lines
TableSource(h, aligns, cells) == TableRowText(h) \o SeparatorText(aligns) \o BodyText(cells)

AlignmentLists == UNION {[1..k -> {ALIGN_NONE, ALIGN_LEFT, ALIGN_CENTER, ALIGN_RIGHT}] : k \in 1..MaxCols}

BodyShapes == UNION {[1..k -> 1..MaxCols] : k \in 0..MaxCols}

\* C15: a header line beginning with `|`, a separator line of dash cells
\* with optional colons and zero or more body lines beginning with `|` parse
\* with no error to one Table node; its num_columns is the number of header
\* cells, its num_rows is 1 plus the number of body lines, and its alignments
\* are those of the separator cells, padded with none or cut to num_columns.
C15_TableParses ==
  Returned =>
    \A h \in 1..MaxCols, aligns \in AlignmentLists, cells \in BodyShapes :
      source = TableSource(h, aligns, cells) =>
        /\ p.errors = <<>>
        /\ \E n \in NodeIndices :
             /\ At(p.nodes, n).tag = "Table"
             /\ \A m \in NodeIndices : At(p.nodes, m).tag = "Table" => m = n
             /\ At(p.nodes, n).data.kind = "Extra"
             /\ LET idx == At(p.nodes, n).data.a
                IN /\ At(p.extra_data, idx) = h
                   /\ At(p.extra_data, idx + 1) = 1 + Len(cells)
                   /\ extra_slice(p, idx + 2, idx + 2 + h) =
                        [i \in 1..h |-> IF i <= Len(aligns) THEN aligns[i] ELSE ALIGN_NONE]

\* the tags of the nodes in a sequence of node indices of ast
TagsOf(ast, indices) == [i \in 1..Len(indices) |-> At(ast.nodes, indices[i]).tag]

\* C16: `<>`, enclosed blocks, `</>` parses without error to one
\* MdxJsxFragment node, the only child of the Document, whose children are
\* the blocks that the enclosed text parses to, and the tokenizer ends in
\* Markdown mode.
C16_FragmentParses ==
  Returned =>
    \A inner \in Sources(FragmentChildAlphabet, MaxFrags - 1) :
      (/\ source = F_frag_open \o inner \o F_frag_close
       /\ parse(inner).errors = <<>>) =>
        /\ p.errors = <<>>
        /\ tz.mode = "Markdown"
        /\ \E n \in NodeIndices :
             /\ At(p.nodes, n).tag = "MdxJsxFragment"
             /\ \A m \in NodeIndices : At(p.nodes, m).tag = "MdxJsxFragment" => m = n
             /\ children(p, doc_idx(Ast_of(p))) = <<n>>
             /\ TagsOf(p, children(p, n)) =
                  TagsOf(parse(inner), children(parse(inner), doc_idx(parse(inner))))

FrontmatterNodes == {n \in NodeIndices : At(p.nodes, n).tag = "Frontmatter"}

\* the byte after the first line of the source
FirstLineEnd == ScanUntil(source, 0, {LF}) + 1

\* the source starts with a line of three or more dashes, and a later token is an Hr
YamlFrontmatterClosed ==
  /\ FirstLineEnd <= Len(source)
  /\ FirstLineEnd >= 4
  /\ \A i \in 0..(FirstLineEnd - 2) : At(source, i) = MINUS
  /\ \E k \in 2..Len(tokens) : tokens[k].tag = "Hr"

\* the source starts with a line ```hnmd, and a later token closes the fence
JsonFrontmatterClosed ==
  /\ FirstLineEnd <= Len(source)
  /\ trim(Slice(source, 0, FirstLineEnd)) = FENCE \o STR_hnmd
  /\ \E k \in 2..Len(tokens) : tokens[k].tag = "CodeFenceEnd"

\* the index in p.token_tags of the first token that reaches past the first line
FirstContentToken == CHOOSE k \in 0..(Len(tokens) - 1) :
                         /\ tokens[k + 1].end > FirstLineEnd \/ tokens[k + 1].tag = "Eof"
                         /\ \A j \in 0..(k - 1) : tokens[j + 1].end <= FirstLineEnd

\* C17: a Frontmatter node exists exactly when the source starts with a
\* `---` line closed by a later Hr (yaml) or with a ```hnmd line closed by a
\* closing fence (json); its main token is the first token, it is the first
\* child of the Document, its content range runs from the first token after
\* the opener line to the closer, and an AST has at most one such node.
C17_FrontmatterAtStartOnly ==
  Returned =>
    /\ Cardinality(FrontmatterNodes) <= 1
    /\ FrontmatterNodes # {} <=> (YamlFrontmatterClosed \/ JsonFrontmatterClosed)
    /\ \A n \in FrontmatterNodes :
         LET info == frontmatter_info(p, n)
             closer == IF info.format = FM_YAML THEN "Hr" ELSE "CodeFenceEnd"
         IN /\ At(p.nodes, n).main_token = 0
            /\ children(p, doc_idx(Ast_of(p)))[1] = n
            /\ info.format = FM_YAML <=> YamlFrontmatterClosed
            /\ info.format = FM_JSON <=> JsonFrontmatterClosed
            /\ info.content_start = FirstContentToken
            /\ info.content_start <= info.content_end
            /\ At(p.token_tags, info.content_end) = closer
            /\ \A k \in info.content_start..(info.content_end - 1) :
                 At(p.token_tags, k) # closer

\* yaml frontmatter whose content range holds the tokens of the line `a`
C17_Witness ==
  /\ Returned
  /\ source = F_dashes \o F_a \o F_nl \o F_dashes
  /\ \E n \in FrontmatterNodes :
       /\ frontmatter_info(p, n).format = FM_YAML
       /\ frontmatter_info(p, n).content_end > frontmatter_info(p, n).content_start

\* what kind of line starts with byte c in a source of SpecList
LineKind(c) ==
  CASE c \in {MINUS, STAR} -> "ListUnordered"
    [] c \in Digits -> "ListOrdered"
    [] c = LF -> "Blank"
    [] OTHER -> "Paragraph"

\* the lines of s from byte i on, each as [kind, start]
RECURSIVE LinesFrom(_, _)
LinesFrom(s, i) ==
  IF i >= Len(s) THEN <<>>
  ELSE <<[kind |-> LineKind(At(s, i)), start |-> i]>> \o LinesFrom(s, ScanUntil(s, i, {LF}) + 1)

\* the maximal runs of lines of one kind, each as [tag, starts]
RECURSIVE RunsOf(_, _)
RunsOf(lines, acc) ==
  IF lines = <<>> THEN acc
  ELSE LET l == Head(lines)
       IN IF acc # <<>> /\ Last(acc).tag = l.kind
          THEN RunsOf(Tail(lines), [acc EXCEPT ![Len(acc)].starts = Append(@, l.start)])
          ELSE RunsOf(Tail(lines), Append(acc, [tag |-> l.kind, starts |-> <<l.start>>]))

IsListRun(r) == r.tag \in {"ListUnordered", "ListOrdered"}

\* the list runs of the source, in order
ListRuns == SelectSeq(RunsOf(LinesFrom(source, 0), <<>>), IsListRun)

\* the list nodes of the AST in node order, each as [tag, starts]: the tag
\* and the byte offsets of the main tokens of its children
ListNodes ==
  LET IsList(n) == At(p.nodes, n).tag \in {"ListUnordered", "ListOrdered"}
      lists == SelectSeq([i \in 1..Len(p.nodes) |-> i - 1], IsList)
  IN [i \in 1..Len(lists) |->
        [tag |-> At(p.nodes, lists[i]).tag,
         starts |-> [j \in 1..Len(children(p, lists[i])) |->
                       At(p.token_starts, At(p.nodes, children(p, lists[i])[j]).main_token)]]]

\* C18: a maximal run of n lines that start with list markers of one kind
\* parses without error to exactly one list node of that kind with n
\* ListItem children in source order; a marker of the other kind starts a
\* new list node.
C18_OneListPerRun ==
  Returned =>
    /\ p.errors = <<>>
    /\ ListNodes = ListRuns
    /\ \A n \in NodeIndices :
         At(p.nodes, n).tag \in {"ListUnordered", "ListOrdered"} =>
           /\ \E i \in 1..Len(DocumentChildren) : DocumentChildren[i] = n
           /\ \A j \in 1..Len(children(p, n)) : At(p.nodes, children(p, n)[j]).tag = "ListItem"

\* the start of the line that holds byte i
RECURSIVE LineStartOf(_)
LineStartOf(i) == IF i = 0 \/ At(source, i - 1) = LF THEN i ELSE LineStartOf(i - 1)

\* the start of the run of spaces that ends just before byte i, not before byte lo
RECURSIVE SpacesStart(_, _)
SpacesStart(i, lo) == IF i > lo /\ At(source, i - 1) = SPACE THEN SpacesStart(i - 1, lo) ELSE i

NewlineOffsets == {i \in 0..(Len(source) - 1) : At(source, i) = LF}

\* the newline at i ends a line that has text and then two or more spaces
EndsWithSpaces(i) ==
  /\ i - SpacesStart(i, LineStartOf(i)) >= 2
  /\ SpacesStart(i, LineStartOf(i)) > LineStartOf(i)

\* the newline at i comes directly after a backslash of its line
EndsWithBackslash(i) == i > LineStartOf(i) /\ At(source, i - 1) = BACKSLASH

\* where the hard break at newline i starts
BreakStart(i) == IF EndsWithBackslash(i) THEN i - 1 ELSE SpacesStart(i, LineStartOf(i))

HasToken(tag, start, end) ==
  \E k \in 1..Len(tokens) : tokens[k] = [tag |-> tag, start |-> start, end |-> end]

NodesOfToken(tag, k) == {n \in NodeIndices : At(p.nodes, n).tag = tag /\ At(p.nodes, n).main_token = k}

\* the Paragraph nodes that have the node of token k among their children
ParagraphsOfToken(k) ==
  {n \in NodeIndices :
     /\ At(p.nodes, n).tag = "Paragraph"
     /\ \E j \in 1..Len(children(p, n)) : At(p.nodes, children(p, n)[j]).main_token = k}

PhaseRank(phase) ==
  CASE phase = "receive" -> 0
    [] phase = "frontmatter" -> 1
    [] phase = "blocks" -> 2
    [] phase = "finish" -> 3
    [] phase = "done" -> 4

\* token_index is at or before the Eof token
TokenIndexWithinTokens == pc # "receive" => p.token_index < Len(p.token_tags)

\* an iteration of the top-level loop that stays in the loop moves token_index on
TopLevelAdvances == (pc = "blocks" /\ pc' = "blocks") => p'.token_index > p.token_index

\* a step of the parser either moves to a later phase or is such an iteration
PhaseAdvances == PhaseRank(pc') > PhaseRank(pc) \/ (pc = "blocks" /\ pc' = "blocks")

ErrorsOfLastCall == Len(p.errors) - Last(calls).errors_before

RECURSIVE MatchingBrace(_, _)
MatchingBrace(i, depth) ==
  IF i >= Len(source) THEN Len(source)
  ELSE IF At(source, i) = LBRACE THEN MatchingBrace(i + 1, depth + 1)
  ELSE IF At(source, i) = RBRACE
       THEN IF depth = 1 THEN i ELSE MatchingBrace(i + 1, depth - 1)
  ELSE MatchingBrace(i + 1, depth)

\* the attributes, as <<node, position>>, whose value is written `{...}`
BraceAttributes ==
  {nk \in NodeIndices \X (1..MaxTokens) :
     /\ At(p.nodes, nk[1]).tag \in JsxTags
     /\ nk[2] <= Len(jsx_attributes(p, nk[1]))
     /\ LET name_token == jsx_attributes(p, nk[1])[nk[2]].name_token
        IN /\ At(p.token_tags, name_token + 1) = "JsxEqual"
           /\ At(p.token_tags, name_token + 2) = "JsxAttrExprStart"}

\* the source text between the `{` of the attribute and its matching `}`
BraceAttributeText(nk) ==
  LET open == At(p.token_starts, jsx_attributes(p, nk[1])[nk[2]].name_token + 2)
  IN Slice(source, open + 1, MatchingBrace(open + 1, 1))

\* the value the renderer and the serializer read for the attribute
BraceAttributeValue(nk) ==
  LET attr == jsx_attributes(p, nk[1])[nk[2]]
  IN IF attr.value_token = U32_MAX THEN <<>> ELSE trim(ast_token_slice(Ast_of(p), attr.value_token))

\* C22: a JSX attribute value written `{...}` with balanced braces has type
\* expression, and the value read from its value token is the source text
\* between the `{` and its matching `}`, trimmed, nested braces included;
\* an empty `{}` stores no value token.
C22_ExpressionAttributeValue ==
  Returned =>
    \A nk \in BraceAttributes :
      LET attr == jsx_attributes(p, nk[1])[nk[2]]
      IN /\ attr.value_type = "Expression"
         /\ StoredAttrType(nk[1], nk[2]) = JSX_EXPRESSION
         /\ BraceAttributeValue(nk) = trim(BraceAttributeText(nk))
         /\ BraceAttributeText(nk) = <<>> => attr.value_token = U32_MAX

\* the number of braces open after the first k tokens
RECURSIVE ExprDepth(_)
ExprDepth(k) ==
  IF k = 0 THEN 0
  ELSE CASE tokens[k].tag \in {"ExprStart", "JsxAttrExprStart"} -> ExprDepth(k - 1) + 1
         [] tokens[k].tag = "ExprEnd" -> Max(ExprDepth(k - 1) - 1, 0)
         [] OTHER -> ExprDepth(k - 1)

\* the tokens, counted from 1, of a `{` met in Markdown mode
MarkdownBraces == {k \in 1..Len(tokens) : tokens[k].tag = "ExprStart" /\ ExprDepth(k - 1) = 0}

\* the token that brings the depth back to what it was before token k;
\* 0 when no token so far does
MatchingToken(k) ==
  LET later == {m \in (k + 1)..Len(tokens) : ExprDepth(m) = ExprDepth(k - 1)}
  IN IF later = {} THEN 0 ELSE CHOOSE m \in later : \A o \in later : m <= o

\* the MdxTextExpression nodes whose main token is token k
ExpressionNodesAt(k) ==
  {n \in NodeIndices : At(p.nodes, n).tag = "MdxTextExpression" /\ At(p.nodes, n).main_token = k - 1}

HeadingNodes == {n \in NodeIndices : At(p.nodes, n).tag = "Heading"}

\* the number of `#` at the start of token k
HashRun(k) == ScanIn(TokenText(k), 0, {HASH})

\* C24: the level stored in a Heading's extra-data record is the number of
\* consecutive `#` at the start of its HeadingStart token, for every run
\* length: unclamped above 6, never wrapped and never 0.
C24_HeadingLevel ==
  Returned =>
    \A n \in HeadingNodes :
      /\ At(p.token_tags, At(p.nodes, n).main_token) = "HeadingStart"
      /\ At(p.extra_data, At(p.nodes, n).data.a) = HashRun(At(p.nodes, n).main_token)
      /\ heading_info(p, n).level = HashRun(At(p.nodes, n).main_token)
      /\ heading_info(p, n).level >= 1

\* the top-level parse_block calls that returned a node
OkCalls == {i \in 1..Len(calls) : calls[i].ok}

\* the nodes the Document's own sub-parsers returned: the frontmatter and
\* one block for each successful call
ReturnedToDocument == Cardinality(FrontmatterNodes) + Cardinality(OkCalls)

ListTags == {"ListUnordered", "ListOrdered"}

\* C25: a sub-parser leaves scratch at the height it had on entry, on
\* success and on failure, so between top-level iterations scratch holds
\* just the nodes returned to the Document; the Document's children are
\* those nodes and a list's children are ListItems, never inline nodes left
\* behind by a failed nested parse.
C25_ScratchRestored ==
  /\ pc \in {"blocks", "finish"} => Len(p.scratch) = ReturnedToDocument
  /\ Returned =>
       /\ Len(DocumentChildren) = ReturnedToDocument
       /\ \A i \in 1..Len(DocumentChildren) :
            At(p.nodes, DocumentChildren[i]).tag \in BlockTags \cup {"Frontmatter"}
       /\ \A n \in NodeIndices :
            At(p.nodes, n).tag \in ListTags =>
              \A i \in 1..Len(children(p, n)) : At(p.nodes, children(p, n)[i]).tag = "ListItem"

\* the tags of the tokens so far that are in tags, in order
TagsAmong(tags) ==
  LET picked == SelectSeq(tokens, LAMBDA tok : tok.tag \in tags)
  IN [i \in 1..Len(picked) |-> picked[i].tag]

\* starts and ends take turns, a start first
Alternates(seq, start_tag, end_tag) ==
  \A i \in 1..Len(seq) : seq[i] = IF i % 2 = 1 THEN start_tag ELSE end_tag

\* C26: over the token stream of any source StrongStart and StrongEnd
\* alternate, StrongStart first, and so do EmphasisStart and EmphasisEnd;
\* strong_depth and emphasis_depth hold 0 or 1, namely whether a start is
\* still open, whatever newlines, blank lines and block starts lie between.
C26_StrongEmphasisAlternate ==
  /\ Alternates(TagsAmong({"StrongStart", "StrongEnd"}), "StrongStart", "StrongEnd")
  /\ Alternates(TagsAmong({"EmphasisStart", "EmphasisEnd"}), "EmphasisStart", "EmphasisEnd")
  /\ tz.strong_depth = Len(TagsAmong({"StrongStart", "StrongEnd"})) % 2
  /\ tz.emphasis_depth = Len(TagsAmong({"EmphasisStart", "EmphasisEnd"})) % 2

\* `**a` in one block, a blank line, `**` in the next: the second `**` is
\* a StrongEnd
C26_Witness ==
  /\ pc # "tokenize"
  /\ source = F_star_twice \o F_a \o F_blank_line \o F_star_twice
  /\ TagsAmong({"StrongStart", "StrongEnd", "BlankLine"}) = <<"StrongStart", "BlankLine", "StrongEnd">>
  /\ tz.strong_depth = 0

\* the Document nodes
DocumentNodes == {n \in NodeIndices : At(p.nodes, n).tag = "Document"}

\* C27: the AST that parse returns has exactly one Document node, and it is
\* the last element of nodes, also when the frontmatter or a block failed
\* and for the empty source; before parse_document ends there is none.
C27_OneDocumentLast ==
  /\ Returned => DocumentNodes = {Len(p.nodes) - 1}
  /\ ~Returned => DocumentNodes = {}

\* a parse whose second block failed after it had made nodes
C27_Witness ==
  /\ Returned
  /\ Len(calls) = 2
  /\ LastCallFailed
  /\ Len(p.nodes) > Last(calls).nodes_before + 1
  /\ DocumentNodes = {Len(p.nodes) - 1}

\* str::is_char_boundary: the start, the end, or a byte that is not a
\* UTF-8 continuation byte (0x80..0xBF)
IsCharBoundary(i) ==
  \/ i = 0
  \/ i = Len(source)
  \/ i < Len(source) /\ At(source, i) \notin 128..191

\* C28: for a valid UTF-8 source every token start lies on a character
\* boundary of the source, so that token_slice is defined for every token.
C28_TokenStartsOnCharBoundaries ==
  \A k \in 1..Len(tokens) : IsCharBoundary(tokens[k].start)

\* C29: Tokenizer::next returns Eof only at the end of the buffer, so the
\* Eof token starts at source.len() and no byte is left untokenized, bytes
\* after a U+0000 included; a further call after Eof returns the same Eof
\* token and changes no tokenizer state.
C29_EofAtEndOfSource ==
  (tokens # <<>> /\ Last(tokens).tag = "Eof") =>
    /\ Last(tokens).start = Len(source)
    /\ tz.index = Len(source)
    /\ next(source, tz) = [t |-> tz, tok |-> Last(tokens)]

\* the modes entered so far and not left, oldest first: each with the mode
\* it was entered from
ModeEntries ==
  [i \in 1..Len(tz.mode_stack) |->
     [from |-> tz.mode_stack[i],
      entered |-> IF i = Len(tz.mode_stack) THEN tz.mode ELSE tz.mode_stack[i + 1]]]

\* C30: in every tokenizer state mode is Markdown exactly when mode_stack is
\* empty; a non-empty mode_stack has Markdown at the bottom and nowhere
\* else; Jsx, InlineCode and CodeBlock were entered from Markdown, and
\* Expression from Markdown, Jsx or Expression.  The modes that call
\* pop_mode therefore always find an entry on the stack.
C30_ModeStackShape ==
  /\ tz.mode = "Markdown" <=> tz.mode_stack = <<>>
  /\ tz.mode_stack # <<>> =>
       /\ tz.mode_stack[1] = "Markdown"
       /\ \A i \in 2..Len(tz.mode_stack) : tz.mode_stack[i] # "Markdown"
  /\ \A i \in 1..Len(ModeEntries) :
       /\ ModeEntries[i].entered \in {"Jsx", "InlineCode", "CodeBlock"} =>
            ModeEntries[i].from = "Markdown"
       /\ ModeEntries[i].entered = "Expression" =>
            ModeEntries[i].from \in {"Markdown", "Jsx", "Expression"}
       /\ ModeEntries[i].entered # "Markdown"

\* inside a JSX tag, inside a brace inside a brace: three modes are saved
C30_Witness ==
  /\ pc = "tokenize"
  /\ tz.mode = "Expression"
  /\ tz.mode_stack = <<"Markdown", "Jsx", "Expression">>
====
